---------------------------- MODULE Spec2Model ----------------------------
(***************************************************************************)
(* A model of civfun_gmr: the Civ5 save reader (civ5save/src/lib.rs), the  *)
(* transfer tasks of the remote API (src/api.rs) and the Manager that      *)
(* drives the per-game transfer states (src/manager.rs).                   *)
(*                                                                         *)
(* Byte buffers are sequences of numbers 0..255; cursor positions are      *)
(* 0-based as in std::io::Cursor, sequences are 1-based as in TLA+.        *)
(***************************************************************************)
EXTENDS Integers, Sequences, FiniteSets, TLC

(***************************************************************************)
(* Result<T>: Ok carries the value and the cursor position after the read, *)
(* Err carries the error.                                                  *)
(***************************************************************************)
Ok(v, p) == [ok |-> TRUE, val |-> v, pos |-> p, err |-> "none"]
Err(e) == [ok |-> FALSE, val |-> <<>>, pos |-> 0, err |-> e]


\* The number of chunks load_chunks collects before it returns.
ChunkCount == 31

\* The chunk boundary 40 00 00 00.
chunk_boundary == <<64, 0, 0, 0>>

\* "CIV5".as_bytes()
Magic == <<67, 73, 86, 53>>

(***************************************************************************)
(* Civ5SaveReader: the cursor primitives.                                  *)
(***************************************************************************)

\* read_exact of `size` bytes at `pos`: fails when fewer bytes are left.
exact(b, pos, size) ==
    IF size = 0 THEN Ok(<<>>, pos)
    ELSE IF pos + size <= Len(b) THEN Ok(SubSeq(b, pos + 1, pos + size), pos + size)
    ELSE Err("UnexpectedEof")

\* read_u32::<LittleEndian>
u32(b, pos) ==
    LET r == exact(b, pos, 4)
    IN  IF ~r.ok THEN r
        ELSE Ok(r.val[1] + 256 * r.val[2] + 65536 * r.val[3] + 16777216 * r.val[4], r.pos)

\* std::str::from_utf8 on the bytes the buffers of this model use: 0..127 is
\* ASCII, and any byte above 127 used here (255) is invalid wherever it stands.
from_utf8_ok(s) == \A i \in 1..Len(s) : s[i] < 128

\* A length-prefixed string.
string(b, pos) ==
    LET n == u32(b, pos)
    IN  IF ~n.ok THEN n
        ELSE LET s == exact(b, n.pos, n.val)
             IN  IF ~s.ok THEN s
                 ELSE IF ~from_utf8_ok(s.val) THEN Err("Utf8Error")
                 ELSE s

\* strings(): length-prefixed strings up to the first empty one.
RECURSIVE stringsLoop(_, _, _)
stringsLoop(b, pos, v) ==
    LET s == string(b, pos)
    IN  IF ~s.ok THEN s
        ELSE IF s.val = <<>> THEN Ok(v, s.pos)
        ELSE stringsLoop(b, s.pos, Append(v, s.val))

strings(b, pos) == stringsLoop(b, pos, <<>>)

(***************************************************************************)
(* header(): the fields in the order the reader takes them.  "u32" is a    *)
(* raw little-endian u32, "string" a length-prefixed string, "skip" the    *)
(* one byte read by exact(1) and dropped.                                  *)
(***************************************************************************)
HeaderFields ==
    << <<"save", "u32">>, <<"game", "string">>, <<"build", "string">>,
       <<"turn", "u32">>, <<"reserved", "skip">>,
       <<"starting_civ", "string">>, <<"handicap", "string">>, <<"era", "string">>,
       <<"current_era", "string">>, <<"game_speed", "string">>,
       <<"world_size", "string">>, <<"map_script", "string">> >>

\* (CHOOSE x \in {f(r) : r \in {v}} : TRUE is f(v) with v computed once.)
RECURSIVE headerLoop(_, _, _, _)
headerLoop(b, pos, i, acc) ==
    IF i > Len(HeaderFields) THEN Ok(acc, pos)
    ELSE LET kind == HeaderFields[i][2]
         IN  CHOOSE x \in
                 { IF ~r.ok THEN r ELSE headerLoop(b, r.pos, i + 1, Append(acc, r.val)) :
                     r \in { IF kind = "u32" THEN u32(b, pos)
                              ELSE IF kind = "string" THEN string(b, pos)
                              ELSE exact(b, pos, 1) } } : TRUE

header(b, pos) ==
    CHOOSE x \in
        { IF ~r.ok THEN r
          ELSE Ok([save |-> r.val[1], game |-> r.val[2], build |-> r.val[3],
                   turn |-> r.val[4], starting_civ |-> r.val[6], handicap |-> r.val[7],
                   era |-> r.val[8], current_era |-> r.val[9], game_speed |-> r.val[10],
                   world_size |-> r.val[11], map_script |-> r.val[12]], r.pos) :
            r \in {headerLoop(b, pos, 1, <<>>)} } : TRUE

(***************************************************************************)
(* seek_past_match: step one byte forward, then compare len(bytes) bytes   *)
(* at every position until they match; a failed comparison seeks back      *)
(* len-1, which is one byte past where it read, and a failed read (the end *)
(* of the buffer) is the error it returns.                                 *)
(***************************************************************************)
RECURSIVE seekLoop(_, _, _)
seekLoop(b, pos, bytes) ==
    CHOOSE x \in
        { IF ~read.ok THEN read
          ELSE IF read.val = bytes THEN Ok(<<>>, read.pos)
          ELSE seekLoop(b, read.pos - (Len(bytes) - 1), bytes) :
            read \in {exact(b, pos, Len(bytes))} } : TRUE

\* A search that compares at the position it starts from.
seek_past_match_NoStep(b, pos, bytes) == seekLoop(b, pos, bytes)

seek_past_match(b, pos, bytes) == seekLoop(b, pos + 1, bytes)

(***************************************************************************)
(* load_chunks: from position 0, the bytes from `offset` up to the match   *)
(* are a chunk's data; the chunk records the position after the match as   *)
(* its offset; reading the data leaves the cursor where the data ends, and *)
(* the next round starts there.                                            *)
(***************************************************************************)
RECURSIVE loadLoop(_, _, _)
loadLoop(b, offset, chunks) ==
    CHOOSE x \in
        { IF ~m.ok THEN m
          ELSE LET new_position == m.pos
                   end_offset == new_position - Len(chunk_boundary)
                   size == end_offset - offset
                   data == exact(b, offset, size)
                   info == [id |-> Len(chunks), offset |-> new_position,
                            size |-> size, data |-> data.val]
               IN  IF ~data.ok THEN data
                   ELSE IF Len(chunks) + 1 = ChunkCount THEN Ok(Append(chunks, info), data.pos)
                   ELSE CHOOSE y \in {loadLoop(b, data.pos, pushed) :
                                         pushed \in {Append(chunks, info)}} : TRUE :
            m \in {seek_past_match(b, offset, chunk_boundary)} } : TRUE

\* A loader whose result lacks the last chunk.
load_chunks_Short(b) ==
    CHOOSE x \in { IF r.ok THEN Ok(SubSeq(r.val, 1, Len(r.val) - 1), r.pos) ELSE r :
                        r \in {loadLoop(b, 0, <<>>)} } : TRUE

load_chunks(b) == loadLoop(b, 0, <<>>)

\* A conversion that takes every other code for None.
PlayerTypeFrom_Lenient(value) ==
    IF value = 1 THEN Ok("AI", 0)
    ELSE IF value = 2 THEN Ok("Dead", 0)
    ELSE IF value = 3 THEN Ok("Human", 0)
    ELSE Ok("None", 0)

\* TryFrom<u32> for PlayerType
PlayerTypeFrom(value) ==
    IF value = 1 THEN Ok("AI", 0)
    ELSE IF value = 2 THEN Ok("Dead", 0)
    ELSE IF value = 3 THEN Ok("Human", 0)
    ELSE IF value = 4 THEN Ok("None", 0)
    ELSE Err("UnknownPlayerType")

\* The loop of parse() that reads one player type per player name.
RECURSIVE typesLoop(_, _, _, _)
typesLoop(b, pos, n, acc) ==
    IF n = 0 THEN Ok(acc, pos)
    ELSE LET v == u32(b, pos)
         IN  IF ~v.ok THEN v
             ELSE LET t == PlayerTypeFrom(v.val)
                  IN  IF ~t.ok THEN [t EXCEPT !.val = v.val]
                      ELSE typesLoop(b, v.pos, n - 1, Append(acc, t.val))

\* chunk(i): the position the cursor is moved to, chunks[i].offset (0-based i).
chunk(chunks, i) == chunks[i + 1].offset

\* The loop of parse() that pairs each player name with its type.
RECURSIVE playersLoop(_, _, _, _)
playersLoop(player_names, player_types, i, players) ==
    IF i > Len(player_names) THEN players
    ELSE playersLoop(player_names, player_types, i + 1,
                     Append(players, [name |-> player_names[i],
                                      player_type |-> player_types[i]]))

\* Civ5SaveReader::parse, the part after the chunks are loaded.
parsePlayers(b, h, cs) ==
    CHOOSE x \in
        { IF ~player_names.ok THEN player_names
          ELSE CHOOSE y \in
                   { IF ~player_types.ok THEN player_types
                     ELSE Ok([header |-> h.val,
                              players |-> playersLoop(player_names.val, player_types.val,
                                                      1, <<>>),
                              chunks |-> cs.val], 0) :
                       player_types \in {typesLoop(b, chunk(cs.val, 2),
                                                   Len(player_names.val), <<>>)} } : TRUE :
            player_names \in {strings(b, chunk(cs.val, 1))} } : TRUE

\* A test of the first four bytes that takes anything.
bad_magic_Never(first) == FALSE

\* parse: self.exact(4)? != "CIV5".as_bytes()
bad_magic(first) == first # Magic

\* Civ5SaveReader::parse
parse(b) ==
    LET magic == exact(b, 0, 4)
    IN  IF ~magic.ok THEN magic
        ELSE IF bad_magic(magic.val) THEN Err("BadHeader")
        ELSE CHOOSE x \in
                 { IF ~h.ok THEN h
                   ELSE CHOOSE y \in
                            { IF ~cs.ok THEN cs ELSE parsePlayers(b, h, cs) :
                                cs \in {load_chunks(b)} } : TRUE :
                     h \in {header(b, magic.pos)} } : TRUE

(***************************************************************************)
(* Civ5Save::difference_score: byte by byte over self's chunks.            *)
(***************************************************************************)
\* A count that passes over the offsets the other chunk does not have.
RECURSIVE diffData_NoMissing(_, _, _)
diffData_NoMissing(data, other, j) ==
    IF j > Len(data) \/ j > Len(other) THEN 0
    ELSE (IF data[j] # other[j] THEN 1 ELSE 0) + diffData_NoMissing(data, other, j + 1)

RECURSIVE diffData(_, _, _)
diffData(data, other, j) ==
    IF j > Len(data) THEN 0
    ELSE (IF j > Len(other) THEN 1 ELSE IF data[j] # other[j] THEN 1 ELSE 0)
         + diffData(data, other, j + 1)

\* A count of the offsets where the bytes are the same.
RECURSIVE diffChunks_Same(_, _, _)
diffChunks_Same(a, o, i) ==
    IF i > Len(a) THEN 0
    ELSE (Len(a[i].data) - diffData(a[i].data, o[i].data, 1)) + diffChunks_Same(a, o, i + 1)

RECURSIVE diffChunks(_, _, _)
diffChunks(a, o, i) ==
    IF i > Len(a) THEN 0
    ELSE diffData(a[i].data, o[i].data, 1) + diffChunks(a, o, i + 1)

difference_score(self, other) == diffChunks(self.chunks, other.chunks, 1)


(***************************************************************************)
(* Save files.  A file's content is one of a few named byte buffers laid   *)
(* out in the format the reader takes: the header, then the 40 00 00 00    *)
(* boundaries; the player names stand after the second boundary and the    *)
(* player type codes after the third, which is where parse() reads them.   *)
(***************************************************************************)
U32LE(n) == <<n % 256, (n \div 256) % 256, (n \div 65536) % 256, (n \div 16777216) % 256>>

LpString(s) == U32LE(Len(s)) \o s

RECURSIVE Repeat(_, _)
Repeat(s, n) == IF n = 0 THEN <<>> ELSE s \o Repeat(s, n - 1)

RECURSIVE Concat(_)
Concat(ss) == IF ss = <<>> THEN <<>> ELSE Head(ss) \o Concat(Tail(ss))

HeaderBytes(turn) ==
    Magic \o U32LE(1) \o LpString(<<>>) \o LpString(<<>>) \o U32LE(turn) \o <<0>>
          \o Repeat(LpString(<<>>), 7)

\* A save of `turn` with the given player names and type codes, `body` after
\* the first boundary and `fill` after each of the `tail` last boundaries.
SaveBytes(turn, names, types, body, fill, tail) ==
    HeaderBytes(turn) \o chunk_boundary \o body
        \o chunk_boundary \o Concat([i \in 1..Len(names) |-> LpString(names[i])]) \o U32LE(0)
        \o chunk_boundary \o Concat([i \in 1..Len(types) |-> U32LE(types[i])])
        \o Repeat(chunk_boundary \o fill, tail)

\* The boundaries a whole save has after the player types.
TailChunks == ChunkCount - 3

\* One player "A", a human.
OnePlayer == << <<65>> >>

\* The buffers: "bad" has no magic, "cut" ends before the last boundary, "t0" is a
\* first-turn save, "t1" and "t2" are one game a turn apart and "t2x" is another game.
Buffers ==
    [bad |-> <<88, 73, 86, 53>> \o SubSeq(SaveBytes(1, OnePlayer, <<3>>, <<7>>, <<1>>, TailChunks),
                                           5, Len(SaveBytes(1, OnePlayer, <<3>>, <<7>>, <<1>>, TailChunks))),
     cut |-> SaveBytes(1, OnePlayer, <<3>>, <<7>>, <<1>>, TailChunks - 1),
     t0  |-> SaveBytes(0, OnePlayer, <<3>>, <<7>>, <<1>>, TailChunks),
     t1  |-> SaveBytes(1, OnePlayer, <<3>>, <<7>>, <<1>>, TailChunks),
     t2  |-> SaveBytes(2, OnePlayer, <<3>>, <<7, 7>>, <<1>>, TailChunks),
     t2x |-> SaveBytes(2, << <<66>>, <<67>> >>, <<3, 1>>, <<9, 9, 9>>, <<2, 2>>, TailChunks)]

BufferIds == DOMAIN Buffers

Bytes(id) == Buffers[id]

\* What the reader makes of each buffer.
Parsed ==
    [bad |-> parse(Buffers.bad), cut |-> parse(Buffers.cut), t0 |-> parse(Buffers.t0),
     t1 |-> parse(Buffers.t1), t2 |-> parse(Buffers.t2), t2x |-> parse(Buffers.t2x)]

(***************************************************************************)
(* The remote service's values.                                            *)
(***************************************************************************)
GameIds == {1, 2}

\* The local user and another player.
Me == 7
Other == 8
UserIds == {Me, Other}

\* No file, no bytes, no key.
None == "none"

\* Option<T>: None, Some(x).
NoneOpt == <<>>
Some(x) == <<x>>
IsSome(o) == o # <<>>
Unwrap(o) == o[1]

Game(id, name, turn_id, uid, first) ==
    [game_id |-> id, name |-> name,
     current_turn |-> [turn_id |-> turn_id, user_id |-> uid, is_first_turn |-> first]]

Name1 == <<"G", ":">>
Name2 == <<"x", "_", "0", "0", "0", "2", " ", "y">>

\* The games lists the remote service answers with, and the database may hold.
RemoteLists ==
    { << Game(1, Name1, 10, Me, FALSE) >>,
      << Game(1, Name1, 10, Me, FALSE), Game(2, Name2, 20, Me, TRUE) >>,
      << Game(1, Name1, 10, Me, FALSE), Game(2, Name2, 20, Me, FALSE) >>,
      << Game(1, Name1, 11, Me, FALSE), Game(2, Name2, 20, Other, FALSE) >>,
      << Game(1, Name1, 10, Me, TRUE), Game(2, Name2, 20, Me, TRUE) >> }

\* The (GameId, TurnId) pairs the lists mention.
TurnKeys == {<<1, 10>>, <<1, 11>>, <<2, 20>>}

(***************************************************************************)
(* File names are sequences of characters.                                 *)
(***************************************************************************)
Civ5SaveSuffix == <<".", "C", "i", "v", "5", "S", "a", "v", "e">>

\* "A_0028 BC.Civ5Save": a turn file the game writes.
TurnFile == <<"A", "_", "0", "0", "2", "8", " ", "B", "C">> \o Civ5SaveSuffix

\* "r.txt"
OtherFile == <<"r", ".", "t", "x", "t">>

Digits == <<"0", "1", "2", "3", "4", "5", "6", "7", "8", "9">>

\* Display of an unsigned number.
RECURSIVE Decimal(_)
Decimal(n) == IF n < 10 THEN <<Digits[n + 1]>> ELSE Decimal(n \div 10) \o <<Digits[(n % 10) + 1]>>

\* Manager::filename: "(civfun {game_id}) {cleaner_name}.Civ5Save"
filename(game) ==
    LET bad == {".", "/", "\\", "\"", "<", ">", "|", ":", "*", "?"}
        cleaner_name == [i \in 1..Len(game.name) |->
                            IF game.name[i] \in bad THEN "_" ELSE game.name[i]]
    IN  <<"(", "c", "i", "v", "f", "u", "n", " ">> \o Decimal(game.game_id) \o <<")", " ">>
            \o cleaner_name \o Civ5SaveSuffix

DigitValue(c) == CHOOSE d \in 0..9 : Digits[d + 1] = c

IsDigit(c) == \E d \in 0..9 : Digits[d + 1] = c

\* The regex (?P<leader>.*?)_(?P<turn>\d{4}) (?P<year>.*?)\.Civ5Save matches with
\* its "_" at position i (the search is not anchored: any text may precede the
\* leader's "_" and follow the suffix).
RegexMatchesAt(s, i) ==
    /\ i + 5 <= Len(s)
    /\ s[i] = "_"
    /\ \A k \in 1..4 : IsDigit(s[i + k])
    /\ s[i + 5] = " "
    /\ \E k \in (i + 6)..(Len(s) - Len(Civ5SaveSuffix) + 1) :
          SubSeq(s, k, k + Len(Civ5SaveSuffix) - 1) = Civ5SaveSuffix

\* turn_from_filename with a pattern that lets any name through.
turn_from_filename_AnyName(s) == [some |-> TRUE, val |-> 0]

\* Manager::turn_from_filename: Ok(None) without a match, else the four digits
\* after the first "_" that lets the whole pattern match.
turn_from_filename(s) ==
    LET at == {i \in 1..Len(s) : RegexMatchesAt(s, i)}
    IN  IF at = {} THEN [some |-> FALSE, val |-> 0]
        ELSE LET i == CHOOSE x \in at : \A y \in at : x <= y
             IN  [some |-> TRUE,
                  val |-> 1000 * DigitValue(s[i + 1]) + 100 * DigitValue(s[i + 2])
                          + 10 * DigitValue(s[i + 3]) + DigitValue(s[i + 4])]

\* The names a file in the save directory can have in this model.
FileNames ==
    {TurnFile, OtherFile} \cup UNION {{filename(l[i]) : i \in 1..Len(l)} : l \in RemoteLists}


(***************************************************************************)
(* Bounds of the model.                                                    *)
(***************************************************************************)
\* Chunk messages one download sends.
MaxChunks == 1

\* Files the game (or the user) writes into the save directory.
MaxCreates == 1

\* mpsc::channel(32) of a download or an upload; mpsc::channel(10) of the watcher.
TransferCap == 32
WatchCap == 10

\* Files written while the watcher's queue is looked at on its own.
MaxWatched == 11

(***************************************************************************)
(* The state.  The sled database is the six variables auth_key .. upload_  *)
(* bytes, one per key family; the Manager's fields follow; then the tasks  *)
(* it spawned, the save directory and the position of process().           *)
(***************************************************************************)
VARIABLES
    auth_key,        \* AUTH_KEY: None or the key
    user_id,         \* USER_ID_KEY: None or a UserId
    games,           \* GAMES_KEY: None or the games list
    saved_bytes,     \* "saved-bytes-{game}-{turn}": None or a buffer
    analysed,        \* "analysed-{game}-{turn}": None or a parsed save
    upload_bytes,    \* "upload-bytes-{game}": None or a buffer
    transfer,        \* Manager.transfer; st = "absent" is no entry
    auth_rx,         \* Manager.auth_rx: None or the oneshot channel
    fetch_games_rx,  \* Manager.fetch_games_rx: None or the queue of the channel
    fetch_task,      \* the task fetch_games spawned
    watch_files_rx,  \* Manager.watch_files_rx: None or the queue of the channel
    raw_events,      \* the notify watcher's own channel: created file names
    tasks,           \* the download tasks, in the order they were spawned
    disk,            \* the save directory: file name -> None or a buffer
    creates,         \* files written so far by the game
    pc,              \* where process() stands
    found,           \* process_new_saves: the drained names not handled yet
    ev,              \* what the Manager's last step did
    reader           \* the Civ5SaveReader's buffers, what parse() gave, the score

vars == <<auth_key, user_id, games, saved_bytes, analysed, upload_bytes, transfer,
          auth_rx, fetch_games_rx, fetch_task, watch_files_rx, raw_events, tasks,
          disk, creates, pc, found, ev, reader>>

db == <<auth_key, user_id, games, saved_bytes, analysed, upload_bytes>>
env == <<raw_events, disk, creates>>

\* No reader was made.
NoReader == [a |-> 0, b |-> 0, save_a |-> NoneOpt, save_b |-> NoneOpt, score |-> NoneOpt]

TransferStates == {"Idle", "Downloading", "Downloaded", "UploadQueued", "Uploading",
                   "UploadComplete"}

St(s) == [st |-> s, rx |-> 0]
Downloading(rx) == [st |-> "Downloading", rx |-> rx]

\* The record of the Manager's last step: what ran, how it ended, and the
\* transfer map, the task count and the upload keys it started from.
NoEvent == [op |-> "none", outcome |-> "none", file |-> <<>>, bytes |-> None,
            before |-> <<>>, tasks_before |-> <<>>, upload_before |-> <<>>, matched |-> <<>>]

\* What analyse() stores for a buffer: the parsed save, or nothing when parse fails.
AnalysisOf(buf) ==
    IF buf = None THEN NoneOpt
    ELSE CHOOSE x \in {IF p.ok THEN Some(p.val) ELSE NoneOpt : p \in {Parsed[buf]}} : TRUE

\* The saved bytes a database can hold from earlier runs.
PersistedSaves ==
    { [k \in TurnKeys |-> None],
      [k \in TurnKeys |-> IF k = <<1, 10>> THEN "t1" ELSE None] }

PersistedGames ==
    { NoneOpt,
      Some(<< Game(1, Name1, 10, Me, FALSE) >>) }

\* Manager::new(db): the database as earlier runs left it, nothing started.
Init ==
    /\ reader = NoReader
    /\ auth_key \in {None, "key"}
    /\ user_id \in {NoneOpt, Some(Me)}
    /\ IsSome(user_id) => auth_key # None
    /\ games \in PersistedGames
    /\ ~IsSome(user_id) => games = NoneOpt
    /\ saved_bytes \in PersistedSaves
    /\ games = NoneOpt => saved_bytes = [k \in TurnKeys |-> None]
    /\ analysed = [k \in TurnKeys |-> AnalysisOf(saved_bytes[k])]
    /\ upload_bytes = [g \in GameIds |-> None]
    /\ transfer = [g \in GameIds |-> St("absent")]
    /\ auth_rx = NoneOpt
    /\ fetch_games_rx = NoneOpt
    /\ fetch_task = "none"
    /\ watch_files_rx = NoneOpt
    /\ raw_events = <<>>
    /\ tasks = <<>>
    /\ disk = [f \in FileNames |-> None]
    /\ creates = 0
    /\ pc = "new"
    /\ found = <<>>
    /\ ev = NoEvent

\* Manager::games
games_list == IF IsSome(games) THEN Unwrap(games) ELSE <<>>

\* Game::is_user_id_turn
is_user_id_turn(game, uid) == game.current_turn.user_id = uid

\* Manager::my_games, for a user id that is there
my_games == SelectSeq(games_list, LAMBDA g : is_user_id_turn(g, Unwrap(user_id)))

\* fill_transfer_states that marks nothing.
fill_transfer_states_Nothing == transfer

\* Manager::fill_transfer_states
fill_transfer_states ==
    [g \in GameIds |->
        IF \E i \in 1..Len(games_list) :
              /\ games_list[i].game_id = g
              /\ saved_bytes[<<g, games_list[i].current_turn.turn_id>>] # None
        THEN St("Downloaded") ELSE transfer[g]]

\* Manager::start
Start ==
    /\ pc = "new"
    /\ transfer' = fill_transfer_states
    /\ auth_rx' = IF auth_key # None THEN Some([state |-> "waiting", val |-> NoneOpt])
                  ELSE NoneOpt
    /\ fetch_games_rx' = IF IsSome(user_id) THEN Some(<<>>) ELSE NoneOpt
    /\ fetch_task' = IF IsSome(user_id) THEN "running" ELSE "none"
    /\ watch_files_rx' = Some(<<>>)
    /\ pc' = "auth"
    /\ ev' = [NoEvent EXCEPT !.op = "start"]
    /\ UNCHANGED <<db, env, tasks, found, reader>>

(***************************************************************************)
(* The tasks and the world around the Manager.                             *)
(***************************************************************************)

\* The process runs: a panic of the Manager ends it, and every task with it.
Alive == pc \notin {"new", "panicked"}

\* The task of authenticate(): the service answers with a user id or null.
AuthReply ==
    /\ Alive
    /\ IsSome(auth_rx) /\ Unwrap(auth_rx).state = "waiting"
    /\ \E v \in {Some(u) : u \in UserIds} \cup {NoneOpt} :
          auth_rx' = Some([state |-> "ready", val |-> v])
    /\ UNCHANGED <<db, env, transfer, fetch_games_rx, fetch_task, watch_files_rx, tasks,
                   pc, found, ev, reader>>

\* authenticate_user().await.unwrap() panics on a failed request: the sender is dropped.
AuthTaskDies ==
    /\ Alive
    /\ IsSome(auth_rx) /\ Unwrap(auth_rx).state = "waiting"
    /\ auth_rx' = Some([state |-> "closed", val |-> NoneOpt])
    /\ UNCHANGED <<db, env, transfer, fetch_games_rx, fetch_task, watch_files_rx, tasks,
                   pc, found, ev, reader>>

\* do_fetch_games: the games list, or the error of the request.
FetchReply ==
    /\ Alive
    /\ fetch_task = "running"
    /\ \E l \in RemoteLists :
          fetch_games_rx' = Some(Append(Unwrap(fetch_games_rx), [ok |-> TRUE, games |-> l]))
    /\ fetch_task' = "done"
    /\ UNCHANGED <<db, env, transfer, auth_rx, watch_files_rx, tasks, pc, found, ev, reader>>

FetchFails ==
    /\ Alive
    /\ fetch_task = "running"
    /\ fetch_games_rx' = Some(Append(Unwrap(fetch_games_rx), [ok |-> FALSE, games |-> <<>>]))
    /\ fetch_task' = "failed"
    /\ UNCHANGED <<db, env, transfer, auth_rx, watch_files_rx, tasks, pc, found, ev, reader>>

\* What the game writes: a turn file that is no save, a first-turn save or a
\* later save, or a file with another name.
Written == {<<TurnFile, "bad">>, <<TurnFile, "t0">>, <<TurnFile, "t2">>, <<OtherFile, "t0">>}

\* The game writes a file into the watched directory; notify reports Create(path).
CreateFile ==
    /\ Alive
    /\ creates < MaxCreates
    /\ \E w \in Written :
          /\ disk' = [disk EXCEPT ![w[1]] = w[2]]
          /\ raw_events' = Append(raw_events, w[1])
    /\ creates' = creates + 1
    /\ UNCHANGED <<db, transfer, auth_rx, fetch_games_rx, fetch_task, watch_files_rx,
                   tasks, pc, found, ev, reader>>

\* The watcher task: one created name from notify's channel into the bounded
\* channel; tx.send(..).await waits while the channel is full.
WatchForward ==
    /\ Alive
    /\ raw_events # <<>>
    /\ Len(Unwrap(watch_files_rx)) < WatchCap
    /\ watch_files_rx' = Some(Append(Unwrap(watch_files_rx), Head(raw_events)))
    /\ raw_events' = Tail(raw_events)
    /\ UNCHANGED <<db, disk, creates, transfer, auth_rx, fetch_games_rx, fetch_task,
                   tasks, pc, found, ev, reader>>


\* The game writes files with a name that is no turn file.
CreateOtherFile ==
    /\ Alive
    /\ creates < MaxWatched
    /\ disk' = [disk EXCEPT ![OtherFile] = "t0"]
    /\ raw_events' = Append(raw_events, OtherFile)
    /\ creates' = creates + 1
    /\ UNCHANGED <<db, transfer, auth_rx, fetch_games_rx, fetch_task, watch_files_rx,
                   tasks, pc, found, ev, reader>>

(***************************************************************************)
(* A download task (Api::get_latest_save_file_bytes).  Every step that can *)
(* fail is unwrapped: a failure panics the task, which ends it without     *)
(* another message.  A send to a dropped receiver fails the same way.      *)
(***************************************************************************)
NewDownload(game) ==
    [game_id |-> game.game_id, path |-> filename(game), pc |-> "get", chan |-> <<>>,
     sent |-> <<>>, chunks |-> 0]

\* The receiver of task t is held by a Downloading state.
RxHeld(t) == \E g \in GameIds : transfer[g] = Downloading(t)

CanSend(t) == RxHeld(t) /\ Len(tasks[t].chan) < TransferCap

TaskFrame == <<db, transfer, auth_rx, fetch_games_rx, fetch_task, watch_files_rx,
               pc, found, ev>>

\* The response arrived: tx.send(DownloadMessage::Started(size))
DlStarted(t) ==
    /\ Alive
    /\ tasks[t].pc = "get"
    /\ CanSend(t)
    /\ tasks' = [tasks EXCEPT ![t].pc = "stream", ![t].chan = Append(@, "Started"),
                                 ![t].sent = Append(@, "Started")]
    /\ UNCHANGED <<TaskFrame, env, reader>>

\* One part of the body: tx.send(DownloadMessage::Chunk(percentage))
DlChunk(t) ==
    /\ Alive
    /\ tasks[t].pc = "stream"
    /\ tasks[t].chunks < MaxChunks
    /\ CanSend(t)
    /\ tasks' = [tasks EXCEPT ![t].chunks = @ + 1, ![t].chan = Append(@, "Chunk"),
                                 ![t].sent = Append(@, "Chunk")]
    /\ UNCHANGED <<TaskFrame, env, reader>>

\* The save the service sends.
Served == "t1"

\* The body ended: temp_file.persist(&save_path) puts the save into the save
\* directory, where the watcher reports it as a created file.
DlPersist(t) ==
    /\ Alive
    /\ tasks[t].pc = "stream"
    /\ disk' = [disk EXCEPT ![tasks[t].path] = Served]
    /\ raw_events' = Append(raw_events, tasks[t].path)
    /\ tasks' = [tasks EXCEPT ![t].pc = "persisted"]
    /\ UNCHANGED <<TaskFrame, creates, reader>>

\* tx.send(DownloadMessage::Done(save_path))
DlDone(t) ==
    /\ Alive
    /\ tasks[t].pc = "persisted"
    /\ CanSend(t)
    /\ tasks' = [tasks EXCEPT ![t].pc = "done", ![t].chan = Append(@, "Done"),
                                 ![t].sent = Append(@, "Done")]
    /\ UNCHANGED <<TaskFrame, env, reader>>

\* An unwrap() panics: the request, a part of the body, the write or the persist
\* failed, or the receiver is gone when the task sends.
DlPanic(t) ==
    /\ Alive
    /\ \/ tasks[t].pc \in {"get", "stream"}
       \/ tasks[t].pc \in {"get", "stream", "persisted"} /\ ~RxHeld(t)
    /\ tasks' = [tasks EXCEPT ![t].pc = "dead"]
    /\ UNCHANGED <<TaskFrame, env, reader>>

(***************************************************************************)
(* Manager::process, one step per part: the auth response, the fetched     *)
(* games, process_transfers, process_new_saves and each handle_save call.  *)
(* A `?` that returns an error ends the tick; a todo!() panics.            *)
(***************************************************************************)

\* A test that clears the games for every user id that comes back.
user_changed_Always(previous_user_id, maybe_user_id) == TRUE

\* handle_auth_response: a user id was stored before and it is another one.
user_changed(previous_user_id, maybe_user_id) ==
    IsSome(previous_user_id) /\ previous_user_id # maybe_user_id

\* Manager::handle_auth_response on the value try_recv() gave.
ProcessAuth ==
    /\ pc = "auth"
    /\ IF IsSome(auth_rx) /\ Unwrap(auth_rx).state = "ready"
       THEN LET maybe_user_id == Unwrap(auth_rx).val
                previous_user_id == user_id
            IN  /\ auth_rx' = Some([state |-> "closed", val |-> NoneOpt])
                /\ IF IsSome(maybe_user_id)
                   THEN /\ user_id' = maybe_user_id
                        /\ games' = IF user_changed(previous_user_id, maybe_user_id)
                                    THEN NoneOpt ELSE games
                   ELSE UNCHANGED <<user_id, games>>
       ELSE UNCHANGED <<auth_rx, user_id, games>>
    /\ pc' = "fetch"
    /\ ev' = [NoEvent EXCEPT !.op = "auth", !.before = <<user_id, games>>]
    /\ UNCHANGED <<auth_key, saved_bytes, analysed, upload_bytes, env, transfer,
                   fetch_games_rx, fetch_task, watch_files_rx, tasks, found, reader>>

\* The loop over the fetched messages: save_games for each games list, up to
\* the first error, which process() returns.
RECURSIVE fetchLoop(_, _)
fetchLoop(fetched, gs) ==
    IF fetched = <<>> THEN [err |-> FALSE, games |-> gs]
    ELSE IF ~Head(fetched).ok THEN [err |-> TRUE, games |-> gs]
    ELSE fetchLoop(Tail(fetched), Some(Head(fetched).games))

ProcessFetch ==
    /\ pc = "fetch"
    /\ LET fetched == IF IsSome(fetch_games_rx) THEN Unwrap(fetch_games_rx) ELSE <<>>
           r == fetchLoop(fetched, games)
       IN  /\ games' = r.games
           /\ pc' = IF r.err THEN "auth" ELSE "transfers"
           /\ ev' = [NoEvent EXCEPT !.op = "fetch",
                                    !.outcome = IF r.err THEN "err" ELSE "ok"]
    /\ fetch_games_rx' = IF IsSome(fetch_games_rx) THEN Some(<<>>) ELSE NoneOpt
    /\ UNCHANGED <<auth_key, user_id, saved_bytes, analysed, upload_bytes, env, transfer,
                   auth_rx, fetch_task, watch_files_rx, tasks, found, reader>>

\* Manager::process_idle_state
process_idle_state(tr, tk, game) ==
    IF game.current_turn.is_first_turn
    THEN [transfer |-> [tr EXCEPT ![game.game_id] = St("Downloaded")], tasks |-> tk]
    ELSE [transfer |-> [tr EXCEPT ![game.game_id] = Downloading(Len(tk) + 1)],
          tasks |-> Append(tk, NewDownload(game))]

\* or_insert with Downloaded where Idle stands.
or_insert_Downloaded(tr, game_id) ==
    IF tr[game_id].st = "absent" THEN [tr EXCEPT ![game_id] = St("Downloaded")] ELSE tr

\* insert where or_insert stands: Idle whatever the entry was.
or_insert_Always(tr, game_id) == [tr EXCEPT ![game_id] = St("Idle")]

\* self.transfer.entry(game.game_id.clone()).or_insert(TransferState::Idle)
or_insert_Idle(tr, game_id) ==
    IF tr[game_id].st = "absent" THEN [tr EXCEPT ![game_id] = St("Idle")] ELSE tr

\* The loop of process_transfers over my_games.
RECURSIVE transfersLoop(_, _, _)
transfersLoop(mine, tr, tk) ==
    IF mine = <<>> THEN [transfer |-> tr, tasks |-> tk, outcome |-> "ok"]
    ELSE LET game == Head(mine)
             entered == or_insert_Idle(tr, game.game_id)
             state == entered[game.game_id]
         IN  IF state.st = "Idle"
             THEN LET r == process_idle_state(entered, tk, game)
                  IN  transfersLoop(Tail(mine), r.transfer, r.tasks)
             ELSE IF state.st = "Downloaded"
             THEN transfersLoop(Tail(mine), entered, tk)
             ELSE [transfer |-> entered, tasks |-> tk, outcome |-> "panic"]

\* Manager::process_transfers
ProcessTransfers ==
    /\ pc = "transfers"
    /\ IF ~IsSome(user_id)
       THEN /\ pc' = "auth"
            /\ ev' = [NoEvent EXCEPT !.op = "process_transfers", !.outcome = "err",
                                     !.before = transfer, !.tasks_before = tasks]
            /\ UNCHANGED <<transfer, tasks>>
       ELSE LET r == transfersLoop(my_games, transfer, tasks)
            IN  /\ transfer' = r.transfer
                /\ tasks' = r.tasks
                /\ pc' = IF r.outcome = "panic" THEN "panicked" ELSE "saves"
                /\ ev' = [NoEvent EXCEPT !.op = "process_transfers", !.outcome = r.outcome,
                                         !.before = transfer, !.tasks_before = tasks]
    /\ UNCHANGED <<db, env, auth_rx, fetch_games_rx, fetch_task, watch_files_rx, found, reader>>

\* process_new_saves that waits with recv() until a name has arrived.
ProcessNewSaves_Recv ==
    /\ pc = "saves"
    /\ Unwrap(watch_files_rx) # <<>>
    /\ found' = Unwrap(watch_files_rx)
    /\ watch_files_rx' = Some(<<>>)
    /\ pc' = "handle"
    /\ ev' = [NoEvent EXCEPT !.op = "process_new_saves"]
    /\ UNCHANGED <<db, env, transfer, auth_rx, fetch_games_rx, fetch_task, tasks, reader>>

\* Manager::process_new_saves, up to the loop over the names it found.
ProcessNewSaves ==
    /\ pc = "saves"
    /\ found' = Unwrap(watch_files_rx)
    /\ watch_files_rx' = Some(<<>>)
    /\ pc' = IF Unwrap(watch_files_rx) = <<>> THEN "auth" ELSE "handle"
    /\ ev' = [NoEvent EXCEPT !.op = "process_new_saves"]
    /\ UNCHANGED <<db, env, transfer, auth_rx, fetch_games_rx, fetch_task, tasks, reader>>


\* Manager::analysed
analysed_get(an, game_id, turn_id) == an[<<game_id, turn_id>>]

\* The turn test that lets every cached save through.
turns_apart_Never(new_turn, last_turn) == FALSE

\* find_game_for_save: new_turn != last_turn && new_turn != last_turn + 1
turns_apart(new_turn, last_turn) == new_turn # last_turn /\ new_turn # last_turn + 1

\* The loop of find_game_for_save for a save past the first turn.  In the arm
\* Some((sd, game)) the name `game` is the stored game, so a smaller diff is
\* stored together with the game that was stored before.
RECURSIVE smallestLoop(_, _, _, _)
smallestLoop(mine, an, new_parsed_save, smallest_diff) ==
    IF mine = <<>> THEN smallest_diff
    ELSE LET game == Head(mine)
             last_parsed == analysed_get(an, game.game_id, game.current_turn.turn_id)
             new_turn == new_parsed_save.header.turn
         IN  IF ~IsSome(last_parsed)
             THEN smallestLoop(Tail(mine), an, new_parsed_save, smallest_diff)
             ELSE IF turns_apart(new_turn, Unwrap(last_parsed).header.turn)
             THEN smallestLoop(Tail(mine), an, new_parsed_save, smallest_diff)
             ELSE LET diff == difference_score(new_parsed_save, Unwrap(last_parsed))
                      next == IF ~IsSome(smallest_diff) THEN Some([diff |-> diff, game |-> game])
                              ELSE IF diff < Unwrap(smallest_diff).diff
                              THEN Some([diff |-> diff, game |-> Unwrap(smallest_diff).game])
                              ELSE smallest_diff
                  IN  smallestLoop(Tail(mine), an, new_parsed_save, next)

\* find_game_for_save without the arm for a first-turn save.
find_game_for_save_Nearest(mine, an, new_parsed_save) ==
    LET smallest_diff == smallestLoop(mine, an, new_parsed_save, NoneOpt)
    IN  IF ~IsSome(smallest_diff) THEN <<>> ELSE <<Unwrap(smallest_diff).game>>

\* find_game_for_save that returns every game the turn test lets through.
find_game_for_save_Every(mine, an, new_parsed_save) ==
    IF new_parsed_save.header.turn = 0
    THEN SelectSeq(mine, LAMBDA g : g.current_turn.is_first_turn)
    ELSE SelectSeq(mine, LAMBDA g :
             /\ IsSome(analysed_get(an, g.game_id, g.current_turn.turn_id))
             /\ ~turns_apart(new_parsed_save.header.turn,
                             Unwrap(analysed_get(an, g.game_id,
                                                 g.current_turn.turn_id)).header.turn))

\* Manager::find_game_for_save
find_game_for_save(mine, an, new_parsed_save) ==
    IF new_parsed_save.header.turn = 0
    THEN SelectSeq(mine, LAMBDA g : g.current_turn.is_first_turn)
    ELSE LET smallest_diff == smallestLoop(mine, an, new_parsed_save, NoneOpt)
         IN  IF ~IsSome(smallest_diff) THEN <<>> ELSE <<Unwrap(smallest_diff).game>>

RECURSIVE GameIdsOf(_)
GameIdsOf(gs) == IF gs = <<>> THEN <<>> ELSE <<Head(gs).game_id>> \o GameIdsOf(Tail(gs))

\* upload_queued with the state that follows UploadQueued put in its place.
upload_queued_Uploading(tr, game_id) == [tr EXCEPT ![game_id] = St("Uploading")]

\* handle_save, one match: self.transfer.insert(game.game_id, UploadQueued)
upload_queued(tr, game_id) == [tr EXCEPT ![game_id] = St("UploadQueued")]

\* Manager::handle_save on a file name: what it returns and what it leaves in
\* the transfer map and under the upload keys.
handle_save(file) ==
    LET same == [outcome |-> "ignored", transfer |-> transfer,
                 upload_bytes |-> upload_bytes, matched |-> <<>>]
        one_match(matched) ==
            IF Len(matched) = 1
            THEN [outcome |-> "queued",
                  transfer |-> upload_queued(transfer, matched[1]),
                  upload_bytes |-> [upload_bytes EXCEPT ![matched[1]] = disk[file]],
                  matched |-> matched]
            ELSE [same EXCEPT !.outcome = "panic", !.matched = matched]
    IN  IF ~turn_from_filename(file).some THEN same
        ELSE IF disk[file] = None THEN [same EXCEPT !.outcome = "err"]
        ELSE CHOOSE x \in
                 { IF ~new_parsed_save.ok THEN [same EXCEPT !.outcome = "err"]
                   ELSE IF ~IsSome(user_id) THEN [same EXCEPT !.outcome = "err"]
                   ELSE CHOOSE y \in
                            { one_match(GameIdsOf(potential_games)) :
                                potential_games \in
                                    {find_game_for_save(my_games, analysed,
                                                        new_parsed_save.val)} } : TRUE :
                     new_parsed_save \in {Parsed[disk[file]]} } : TRUE

\* One round of the loop of process_new_saves: handle_save(&file)?
HandleSave ==
    /\ pc = "handle"
    /\ LET file == Head(found)
           r == handle_save(file)
       IN  /\ transfer' = r.transfer
           /\ upload_bytes' = r.upload_bytes
           /\ found' = IF r.outcome \in {"ignored", "queued"} THEN Tail(found) ELSE <<>>
           /\ pc' = IF r.outcome = "panic" THEN "panicked"
                    ELSE IF r.outcome = "err" \/ Tail(found) = <<>> THEN "auth"
                    ELSE "handle"
           /\ ev' = [NoEvent EXCEPT !.op = "handle_save", !.outcome = r.outcome,
                                    !.file = file, !.bytes = disk[file],
                                    !.before = transfer,
                                    !.upload_before = upload_bytes, !.matched = r.matched]
    /\ UNCHANGED <<auth_key, user_id, games, saved_bytes, analysed, env, auth_rx,
                   fetch_games_rx, fetch_task, watch_files_rx, tasks, reader>>

Next ==
    \/ Start
    \/ AuthReply
    \/ AuthTaskDies
    \/ FetchReply
    \/ FetchFails
    \/ CreateFile
    \/ WatchForward
    \/ \E t \in 1..Len(tasks) : DlStarted(t)
    \/ \E t \in 1..Len(tasks) : DlChunk(t)
    \/ \E t \in 1..Len(tasks) : DlPersist(t)
    \/ \E t \in 1..Len(tasks) : DlDone(t)
    \/ \E t \in 1..Len(tasks) : DlPanic(t)
    \/ ProcessAuth
    \/ ProcessFetch
    \/ ProcessTransfers
    \/ ProcessNewSaves
    \/ HandleSave

Spec == Init /\ [][Next]_vars

(***************************************************************************)
(* The watcher and its queue on their own: SpecWatch is a Manager that has *)
(* started for a user without games, the watcher task, and a game that     *)
(* writes more files than the queue takes.                                 *)
(***************************************************************************)
InitWatch ==
    /\ reader = NoReader
    /\ auth_key = "key"
    /\ user_id = Some(Me)
    /\ games = NoneOpt
    /\ saved_bytes = [k \in TurnKeys |-> None]
    /\ analysed = [k \in TurnKeys |-> NoneOpt]
    /\ upload_bytes = [g \in GameIds |-> None]
    /\ transfer = [g \in GameIds |-> St("absent")]
    /\ auth_rx = Some([state |-> "closed", val |-> NoneOpt])
    /\ fetch_games_rx = Some(<<>>)
    /\ fetch_task = "done"
    /\ watch_files_rx = Some(<<>>)
    /\ raw_events = <<>>
    /\ tasks = <<>>
    /\ disk = [f \in FileNames |-> None]
    /\ creates = 0
    /\ pc = "auth"
    /\ found = <<>>
    /\ ev = [NoEvent EXCEPT !.op = "start"]

NextWatch ==
    \/ CreateOtherFile
    \/ WatchForward
    \/ ProcessAuth
    \/ ProcessFetch
    \/ ProcessTransfers
    \/ ProcessNewSaves
    \/ HandleSave

SpecWatch == InitWatch /\ [][NextWatch]_vars

(***************************************************************************)
(* find_game_for_save over more inputs than the runs of Spec bring about:  *)
(* SpecMatch starts where process_new_saves has drained the name of one    *)
(* new turn file, for every games list, every content of the analysed      *)
(* saves and every save the file can hold, and calls handle_save.          *)
(***************************************************************************)

\* The saves a new file or an analysed entry holds.
MatchSaves == {"t0", "t1", "t2", "t2x"}

\* A third game of the user, for a games list with three candidates.
Name3 == <<"z">>
ThreeGames ==
    << Game(1, Name1, 10, Me, FALSE), Game(2, Name2, 20, Me, FALSE),
       Game(3, Name3, 30, Me, FALSE) >>
MatchLists == RemoteLists \cup {ThreeGames}
MatchGameIds == GameIds \cup {3}
MatchKeys == TurnKeys \cup {<<3, 30>>}

InitMatch ==
    /\ reader = NoReader
    /\ auth_key = "key"
    /\ user_id = Some(Me)
    /\ games \in {Some(l) : l \in MatchLists}
    /\ saved_bytes \in [MatchKeys -> MatchSaves \cup {None}]
    /\ games # Some(ThreeGames) => saved_bytes[<<3, 30>>] = None
    /\ analysed = [k \in MatchKeys |-> AnalysisOf(saved_bytes[k])]
    /\ upload_bytes = [g \in MatchGameIds |-> None]
    /\ transfer = [g \in MatchGameIds |-> St("absent")]
    /\ auth_rx = Some([state |-> "closed", val |-> NoneOpt])
    /\ fetch_games_rx = Some(<<>>)
    /\ fetch_task = "done"
    /\ watch_files_rx = Some(<<>>)
    /\ raw_events = <<>>
    /\ tasks = <<>>
    /\ \E new \in MatchSaves : disk = [f \in FileNames |-> IF f = TurnFile THEN new ELSE None]
    /\ creates = 0
    /\ pc = "handle"
    /\ found = <<TurnFile>>
    /\ ev = [NoEvent EXCEPT !.op = "process_new_saves"]

NextMatch == HandleSave

SpecMatch == InitMatch /\ [][NextMatch]_vars

(***************************************************************************)
(* store_downloaded_save and analyse.  process_transfers does not call     *)
(* them (the arm for Downloading is todo!()), so they get a specification  *)
(* of their own: SpecStore starts where downloads have finished and calls  *)
(* store_downloaded_save for the games that are in Downloading.            *)
(***************************************************************************)

\* Manager::analyse: the parsed save goes under the analysed key; a save that
\* does not parse is the error returned, and nothing is inserted.
analyse(an, game_id, turn_id, data) ==
    CHOOSE x \in
        { IF ~civ5save.ok THEN [ok |-> FALSE, analysed |-> an]
          ELSE [ok |-> TRUE,
                analysed |-> [an EXCEPT ![<<game_id, turn_id>>] = Some(civ5save.val)]] :
            civ5save \in {Parsed[data]} } : TRUE

\* Manager::store_downloaded_save: the file is read, its bytes are inserted,
\* the state is set to Downloaded, and then the bytes are analysed.
store_downloaded_save(game_id, turn_id, path) ==
    IF disk[path] = None
    THEN [outcome |-> "err", saved_bytes |-> saved_bytes, transfer |-> transfer,
          analysed |-> analysed]
    ELSE CHOOSE x \in
             { [outcome |-> IF a.ok THEN "ok" ELSE "err",
                saved_bytes |-> [saved_bytes EXCEPT ![<<game_id, turn_id>>] = disk[path]],
                transfer |-> [transfer EXCEPT ![game_id] = St("Downloaded")],
                analysed |-> a.analysed] :
                 a \in {analyse(analysed, game_id, turn_id, disk[path])} } : TRUE

\* A download that ran to its end.
FinishedDownload(game) ==
    [NewDownload(game) EXCEPT !.pc = "done", !.chan = <<"Started", "Done">>,
                              !.sent = <<"Started", "Done">>]

\* What a finished download can have left at its path: nothing (the file was
\* removed since), or a save that parses or does not.
Left == {None, "bad", "cut", "t1", "t2x"}

\* The games of a list that process_idle_state starts a download for.
Downloads(l) ==
    SelectSeq(l, LAMBDA g : is_user_id_turn(g, Me) /\ ~g.current_turn.is_first_turn)

RECURSIVE IndexOf(_, _, _)
IndexOf(gs, game_id, i) ==
    IF i > Len(gs) THEN 0
    ELSE IF gs[i].game_id = game_id THEN i
    ELSE IndexOf(gs, game_id, i + 1)

RECURSIVE FinishedTasks(_)
FinishedTasks(gs) ==
    IF gs = <<>> THEN <<>> ELSE <<FinishedDownload(Head(gs))>> \o FinishedTasks(Tail(gs))

\* Every download of the games list has finished and no tick has run since.
InitStore ==
    /\ reader = NoReader
    /\ auth_key = "key"
    /\ user_id = Some(Me)
    /\ games \in {Some(l) : l \in RemoteLists}
    /\ saved_bytes = [k \in TurnKeys |-> None]
    /\ analysed = [k \in TurnKeys |-> NoneOpt]
    /\ upload_bytes = [g \in GameIds |-> None]
    /\ tasks = FinishedTasks(Downloads(games_list))
    /\ transfer = [g \in GameIds |->
                     IF IndexOf(Downloads(games_list), g, 1) = 0 THEN St("absent")
                     ELSE Downloading(IndexOf(Downloads(games_list), g, 1))]
    /\ disk \in [FileNames -> Left]
    /\ \A f \in FileNames :
          (\A t \in 1..Len(tasks) : tasks[t].path # f) => disk[f] = None
    /\ auth_rx = Some([state |-> "closed", val |-> NoneOpt])
    /\ fetch_games_rx = Some(<<>>)
    /\ fetch_task = "done"
    /\ watch_files_rx = Some(<<>>)
    /\ raw_events = <<>>
    /\ creates = 0
    /\ pc = "store"
    /\ found = <<>>
    /\ ev = NoEvent

\* store_downloaded_save(&game_id, &turn_id, &path) for a game in Downloading
\* whose download has sent Done(path).
StoreDownloadedSave ==
    /\ pc = "store"
    /\ \E i \in 1..Len(my_games) :
          /\ transfer[my_games[i].game_id].st = "Downloading"
          /\ \E r \in {store_downloaded_save(my_games[i].game_id,
                                              my_games[i].current_turn.turn_id,
                                              filename(my_games[i]))} :
                /\ saved_bytes' = r.saved_bytes
                /\ transfer' = r.transfer
                /\ analysed' = r.analysed
                /\ ev' = [NoEvent EXCEPT !.op = "store_downloaded_save",
                                         !.outcome = r.outcome,
                                         !.file = filename(my_games[i]),
                                         !.bytes = disk[filename(my_games[i])],
                                         !.before = transfer,
                                         !.matched = <<my_games[i].game_id>>]
    /\ UNCHANGED <<auth_key, user_id, games, upload_bytes, env, auth_rx, fetch_games_rx,
                   fetch_task, watch_files_rx, tasks, pc, found, reader>>

NextStore == StoreDownloadedSave

SpecStore == InitStore /\ [][NextStore]_vars

(***************************************************************************)
(* An upload task (Api::upload_save_client).  process_transfers never      *)
(* comes to process_upload_queued, so uploads get a specification of their *)
(* own: SpecUpload starts where a game of the user is Uploading and        *)
(* upload_save_client has been called with the bytes stashed for it, and   *)
(* runs the task next to the Manager's ticks.  A step of the task that     *)
(* fails returns its error through `?` and sends nothing.                  *)
(***************************************************************************)

\* The values of UploadResponse.result_type the service answers with.
ResultTypes == {0, 1}

\* upload_save_client(turn_id, bytes): the channel and the spawned task.  The
\* caller holds the receiver it gets back, or drops it.
NewUpload(game, bytes, held) ==
    [game_id |-> game.game_id, turn_id |-> game.current_turn.turn_id, bytes |-> bytes,
     pc |-> "start", chan |-> <<>>, sent |-> <<>>, rx_held |-> held, result_type |-> 0]

UploadCanSend(t) == tasks[t].rx_held /\ Len(tasks[t].chan) < TransferCap

\* tx.send(UploadMessage::Started).await?
UpStarted(t) ==
    /\ Alive
    /\ tasks[t].pc = "start"
    /\ UploadCanSend(t)
    /\ tasks' = [tasks EXCEPT ![t].pc = "post", ![t].chan = Append(@, "Started"),
                                 ![t].sent = Append(@, "Started")]
    /\ UNCHANGED <<TaskFrame, env, reader>>

\* The POST was answered and the answer is an UploadResponse.
UpRespond(t) ==
    /\ Alive
    /\ tasks[t].pc = "post"
    /\ \E result_type \in ResultTypes :
          tasks' = [tasks EXCEPT ![t].pc = "responded", ![t].result_type = result_type]
    /\ UNCHANGED <<TaskFrame, env, reader>>

\* result_type is not 0: tx.send(UploadMessage::Done).await?
UpDone(t) ==
    /\ Alive
    /\ tasks[t].pc = "responded"
    /\ tasks[t].result_type # 0
    /\ UploadCanSend(t)
    /\ tasks' = [tasks EXCEPT ![t].pc = "done", ![t].chan = Append(@, "Done"),
                                 ![t].sent = Append(@, "Done")]
    /\ UNCHANGED <<TaskFrame, env, reader>>

\* The task returns an error: the receiver is gone when it sends, the request
\* or the decoding of the answer failed, or result_type is 0.
UpFail(t) ==
    /\ Alive
    /\ \/ tasks[t].pc = "start" /\ ~tasks[t].rx_held
       \/ tasks[t].pc = "post"
       \/ tasks[t].pc = "responded" /\ tasks[t].result_type = 0
       \/ tasks[t].pc = "responded" /\ ~tasks[t].rx_held
    /\ tasks' = [tasks EXCEPT ![t].pc = "failed"]
    /\ UNCHANGED <<TaskFrame, env, reader>>

\* A game of the user is Uploading (process_upload_queued inserted it) and the
\* upload of its stashed bytes has been spawned; the Manager is between ticks.
InitUpload ==
    /\ reader = NoReader
    /\ auth_key = "key"
    /\ user_id = Some(Me)
    /\ games \in {Some(l) : l \in RemoteLists}
    /\ saved_bytes = [k \in TurnKeys |-> None]
    /\ analysed = [k \in TurnKeys |-> NoneOpt]
    /\ \E i \in 1..Len(my_games) : \E bytes \in {"t0", "t2"} : \E held \in BOOLEAN :
          /\ upload_bytes = [g \in GameIds |->
                               IF g = my_games[i].game_id THEN bytes ELSE None]
          /\ transfer = [g \in GameIds |->
                           IF g = my_games[i].game_id THEN St("Uploading")
                           ELSE St("absent")]
          /\ tasks = <<NewUpload(my_games[i], bytes, held)>>
    /\ disk = [f \in FileNames |-> None]
    /\ auth_rx = Some([state |-> "closed", val |-> NoneOpt])
    /\ fetch_games_rx = Some(<<>>)
    /\ fetch_task = "done"
    /\ watch_files_rx = Some(<<>>)
    /\ raw_events = <<>>
    /\ creates = 0
    /\ pc = "auth"
    /\ found = <<>>
    /\ ev = NoEvent

NextUpload ==
    \/ \E t \in 1..Len(tasks) : UpStarted(t)
    \/ \E t \in 1..Len(tasks) : UpRespond(t)
    \/ \E t \in 1..Len(tasks) : UpDone(t)
    \/ \E t \in 1..Len(tasks) : UpFail(t)
    \/ ProcessAuth
    \/ ProcessFetch
    \/ ProcessTransfers

SpecUpload == InitUpload /\ [][NextUpload]_vars

(***************************************************************************)
(* The reader on its own: Civ5SaveReader::new(bytes).parse() on two        *)
(* buffers a and b, then a.difference_score(&b).  The buffers are drawn    *)
(* from Inputs; region k is what follows the k-th boundary.                *)
(***************************************************************************)
Layout(head, regions) ==
    head \o Concat([i \in 1..Len(regions) |-> chunk_boundary \o regions[i]])

\* A header with the given game and build strings.
HeaderWith(game, build, turn) ==
    Magic \o U32LE(1) \o LpString(game) \o LpString(build) \o U32LE(turn) \o <<0>>
          \o Repeat(LpString(<<>>), 7)

\* The player names with the empty string that ends them, and the type codes.
NamesBytes(names) == Concat([i \in 1..Len(names) |-> LpString(names[i])]) \o U32LE(0)
TypesBytes(types) == Concat([i \in 1..Len(types) |-> U32LE(types[i])])

\* A buffer with `body` after the first boundary, then the names, the type
\* codes and `tail` regions of `fill`.
SaveWith(head, body, names, types, fill, tail) ==
    Layout(head, <<body, names, types>> \o [i \in 1..tail |-> fill])

Inputs ==
    << SaveWith(HeaderBytes(0), <<7>>, NamesBytes(OnePlayer), TypesBytes(<<3>>), <<1>>, TailChunks),
       SaveWith(HeaderBytes(1), <<7>>, NamesBytes(OnePlayer), TypesBytes(<<3>>), <<1>>, TailChunks),
       SaveWith(HeaderBytes(2), <<7, 7>>, NamesBytes(OnePlayer), TypesBytes(<<3>>), <<1>>, TailChunks),
       SaveWith(HeaderBytes(2), <<9, 9, 9>>, NamesBytes(<< <<66>>, <<67>> >>), TypesBytes(<<3, 1>>),
                <<2, 2>>, TailChunks),
       \* strings in the header, nothing after the first boundary, every type
       SaveWith(HeaderWith(<<71>>, <<98, 98>>, 5), <<>>,
                NamesBytes(<< <<65>>, <<72, 105>>, <<67>>, <<68>> >>), TypesBytes(<<1, 2, 3, 4>>),
                <<1>>, TailChunks),
       \* type codes no player type has
       SaveWith(HeaderBytes(1), <<7>>, NamesBytes(OnePlayer), TypesBytes(<<5>>), <<1>>, TailChunks),
       SaveWith(HeaderBytes(1), <<7>>, NamesBytes(<< <<65>>, <<66>> >>), TypesBytes(<<3, 0>>),
                <<1>>, TailChunks),
       SaveWith(HeaderBytes(1), <<7>>, NamesBytes(OnePlayer), TypesBytes(<<259>>), <<1>>, TailChunks),
       \* one type code more than names, one less
       SaveWith(HeaderBytes(1), <<7>>, NamesBytes(OnePlayer), TypesBytes(<<3, 1>>), <<1>>, TailChunks),
       SaveWith(HeaderBytes(1), <<7>>, NamesBytes(<< <<65>>, <<66>> >>), TypesBytes(<<3>>),
                <<1>>, TailChunks),
       \* one boundary less than a save has, one more
       SaveWith(HeaderBytes(1), <<7>>, NamesBytes(OnePlayer), TypesBytes(<<3>>), <<1>>, TailChunks - 1),
       SaveWith(HeaderBytes(1), <<7>>, NamesBytes(OnePlayer), TypesBytes(<<3>>), <<1>>, TailChunks + 1),
       \* no magic: a whole save behind it, and six bytes only
       <<88, 73, 86, 53>> \o SubSeq(Bytes("t1"), 5, Len(Bytes("t1"))),
       <<88, 73, 86, 53, 1, 0>>,
       \* the buffer ends inside the header
       SubSeq(Bytes("t1"), 1, 20),
       \* a string after the empty string, no player, a name that is no UTF-8
       SaveWith(HeaderBytes(1), <<7>>, NamesBytes(OnePlayer) \o LpString(<<66>>), TypesBytes(<<3>>),
                <<1>>, TailChunks),
       SaveWith(HeaderBytes(1), <<7>>, NamesBytes(<<>>), TypesBytes(<<>>), <<1>>, TailChunks),
       SaveWith(HeaderBytes(1), <<7>>, NamesBytes(<< <<255>> >>), TypesBytes(<<3>>), <<1>>, TailChunks),
       \* the second buffer with longer regions at the end
       SaveWith(HeaderBytes(1), <<7>>, NamesBytes(OnePlayer), TypesBytes(<<3>>), <<1, 1>>, TailChunks) >>

InputIds == DOMAIN Inputs

\* What parse() gives for each of them.
ParsedInputs ==
    << parse(Inputs[1]), parse(Inputs[2]), parse(Inputs[3]), parse(Inputs[4]),
       parse(Inputs[5]), parse(Inputs[6]), parse(Inputs[7]), parse(Inputs[8]),
       parse(Inputs[9]), parse(Inputs[10]), parse(Inputs[11]), parse(Inputs[12]),
       parse(Inputs[13]), parse(Inputs[14]), parse(Inputs[15]), parse(Inputs[16]),
       parse(Inputs[17]), parse(Inputs[18]), parse(Inputs[19]) >>

InitParse ==
    /\ reader \in {[NoReader EXCEPT !.a = i, !.b = j] : i, j \in InputIds}
    /\ auth_key = None
    /\ user_id = NoneOpt
    /\ games = NoneOpt
    /\ saved_bytes = [k \in TurnKeys |-> None]
    /\ analysed = [k \in TurnKeys |-> NoneOpt]
    /\ upload_bytes = [g \in GameIds |-> None]
    /\ transfer = [g \in GameIds |-> St("absent")]
    /\ auth_rx = NoneOpt
    /\ fetch_games_rx = NoneOpt
    /\ fetch_task = "none"
    /\ watch_files_rx = NoneOpt
    /\ raw_events = <<>>
    /\ tasks = <<>>
    /\ disk = [f \in FileNames |-> None]
    /\ creates = 0
    /\ pc = "new"
    /\ found = <<>>
    /\ ev = NoEvent

\* let a = Civ5SaveReader::new(&bytes).parse(), and the same for b.
ParseA ==
    /\ reader.save_a = NoneOpt
    /\ reader' = [reader EXCEPT !.save_a = Some(ParsedInputs[reader.a])]
    /\ UNCHANGED <<db, env, transfer, auth_rx, fetch_games_rx, fetch_task, watch_files_rx,
                   tasks, pc, found, ev>>

ParseB ==
    /\ reader.save_b = NoneOpt
    /\ reader' = [reader EXCEPT !.save_b = Some(ParsedInputs[reader.b])]
    /\ UNCHANGED <<db, env, transfer, auth_rx, fetch_games_rx, fetch_task, watch_files_rx,
                   tasks, pc, found, ev>>

\* a.difference_score(&b) on two saves that parsed.
DifferenceScore ==
    /\ IsSome(reader.save_a) /\ Unwrap(reader.save_a).ok
    /\ IsSome(reader.save_b) /\ Unwrap(reader.save_b).ok
    /\ reader.score = NoneOpt
    /\ reader' = [reader EXCEPT !.score = Some(difference_score(Unwrap(reader.save_a).val,
                                                               Unwrap(reader.save_b).val))]
    /\ UNCHANGED <<db, env, transfer, auth_rx, fetch_games_rx, fetch_task, watch_files_rx,
                   tasks, pc, found, ev>>

NextParse ==
    \/ ParseA
    \/ ParseB
    \/ DifferenceScore

SpecParse == InitParse /\ [][NextParse]_vars

(***************************************************************************)
(* The claims about process_transfers.  ev records the Manager's last      *)
(* step; while ev.op = "process_transfers" the games list and the user id  *)
(* are the ones that tick ran with.                                        *)
(***************************************************************************)

\* The tick ran over the games of the user (my_games() gave a list).
TransfersRan == ev.op = "process_transfers" /\ ev.outcome # "err"

\* The game had no state yet, which the tick enters as Idle, or was Idle.
WasIdle(game) == ev.before[game.game_id].st \in {"absent", "Idle"}

\* The download tasks the tick started for a game.
StartedFor(game_id) ==
    {t \in (Len(ev.tasks_before) + 1)..Len(tasks) : tasks[t].game_id = game_id}

\* C1: a process_transfers tick moves every game the local user owns the turn
\* for that was Idle and is on its first turn to Downloaded, and starts no
\* download task for it.
C1_FirstTurnDownloaded ==
    TransfersRan =>
        \A i \in 1..Len(my_games) :
            LET game == my_games[i]
            IN  (WasIdle(game) /\ game.current_turn.is_first_turn) =>
                    /\ transfer[game.game_id] = St("Downloaded")
                    /\ StartedFor(game.game_id) = {}

\* The tick found Done waiting in the channel of a game in Downloading.
DoneWaiting(game) ==
    /\ ev.before[game.game_id].st = "Downloading"
    /\ \E k \in 1..Len(ev.tasks_before[ev.before[game.game_id].rx].chan) :
          ev.tasks_before[ev.before[game.game_id].rx].chan[k] = "Done"

\* C2: a game in Downloading stays in Downloading over a tick that finds no Done
\* in its channel; the tick that finds Done leaves the game Downloaded with an
\* analysed save under its (GameId, TurnId).
C2_DownloadingUntilDone ==
    TransfersRan =>
        \A i \in 1..Len(my_games) :
            LET game == my_games[i]
            IN  ev.before[game.game_id].st = "Downloading" =>
                    IF DoneWaiting(game)
                    THEN /\ transfer[game.game_id] = St("Downloaded")
                         /\ IsSome(analysed[<<game.game_id, game.current_turn.turn_id>>])
                    ELSE transfer[game.game_id] = ev.before[game.game_id]

\* C9: a process_transfers tick moves every game the local user owns the turn
\* for that was Idle and is past its first turn to Downloading, with exactly one
\* download task started for it, whose receiver the Downloading state holds.
C9_IdleToDownloading ==
    TransfersRan =>
        \A i \in 1..Len(my_games) :
            LET game == my_games[i]
            IN  (WasIdle(game) /\ ~game.current_turn.is_first_turn) =>
                    /\ Cardinality(StartedFor(game.game_id)) = 1
                    /\ \E t \in StartedFor(game.game_id) :
                          transfer[game.game_id] = Downloading(t)

\* C10: the tick that finds Done in the channel of a game in Downloading leaves
\* the bytes of the downloaded file under the (GameId, TurnId) of the game's
\* current turn, and the game's state holds no receiver any more.
C10_DoneStored ==
    TransfersRan =>
        \A i \in 1..Len(my_games) :
            LET game == my_games[i]
            IN  DoneWaiting(game) =>
                    /\ saved_bytes[<<game.game_id, game.current_turn.turn_id>>]
                           = disk[filename(game)]
                    /\ transfer[game.game_id].st # "Downloading"


(***************************************************************************)
(* The claims about the transfer tasks.                                    *)
(***************************************************************************)

\* A task ended: it sent Done and returned, or it panicked.
Ended(t) == tasks[t].pc \in {"done", "dead"}

\* Started, then Chunk messages, then at most one Done or Error, which is last.
ProgressShape(s) ==
    \A k \in 1..Len(s) :
        /\ (k = 1) <=> (s[k] = "Started")
        /\ s[k] \in {"Done", "Error"} => k = Len(s)

\* C5: what a task sends is Started, then zero or more Chunk, then exactly one
\* Done or Error; a task that has ended, failed or not, has sent its terminal
\* message.
C5_TerminalMessage ==
    \A t \in 1..Len(tasks) :
        /\ ProgressShape(tasks[t].sent)
        /\ Ended(t) => /\ tasks[t].sent # <<>>
                       /\ tasks[t].sent[Len(tasks[t].sent)] \in {"Done", "Error"}

(***************************************************************************)
(* The claims about handle_save.  ev.file is the name it was called with,  *)
(* ev.bytes the content of that file, ev.before and ev.upload_before the   *)
(* transfer map and the upload keys it started from, ev.matched what       *)
(* find_game_for_save returned.                                            *)
(***************************************************************************)

\* The name has the shape of a turn file somewhere in it.
TurnName(s) == \E i \in 1..Len(s) : RegexMatchesAt(s, i)

\* handle_save got as far as find_game_for_save: the name matched, the file was
\* there and it parsed.
Matched == /\ ev.op = "handle_save"
           /\ TurnName(ev.file)
           /\ ev.bytes # None
           /\ Parsed[ev.bytes].ok

\* C6: when the name matches, the file parses and find_game_for_save returns
\* exactly one game, the file's bytes are under that game's upload key, that
\* game is UploadQueued and every other game's transfer state is as it was.
C6_OneMatchQueued ==
    (Matched /\ Len(ev.matched) = 1) =>
        /\ ev.outcome = "queued"
        /\ upload_bytes[ev.matched[1]] = ev.bytes
        /\ transfer[ev.matched[1]] = St("UploadQueued")
        /\ \A g \in GameIds \ {ev.matched[1]} : transfer[g] = ev.before[g]

\* C6 happens: one game matched a save, and it was not queued before.
C6_Witness ==
    /\ Matched /\ Len(ev.matched) = 1
    /\ ev.before[ev.matched[1]].st # "UploadQueued"
    /\ transfer[ev.matched[1]] = St("UploadQueued")
    /\ \E g \in GameIds \ {ev.matched[1]} : transfer[g].st # "absent"

\* C7: when find_game_for_save returns no game or several, handle_save returns
\* an error to its caller, the Manager keeps running, and the transfer map and
\* the upload keys are as they were.
C7_AnomalyReported ==
    (Matched /\ Len(ev.matched) # 1) =>
        /\ ev.outcome = "err"
        /\ pc # "panicked"
        /\ transfer = ev.before
        /\ upload_bytes = ev.upload_before

\* C8: a name that does not match the turn-file pattern is ignored: the call
\* returns without an error whatever the file holds, the loop goes on to the
\* next name, and the transfer map, the analysed saves and the stored bytes are
\* as they were.
C8_OtherNameIgnored ==
    [][(pc = "handle" /\ found' # found /\ ~TurnName(Head(found))) =>
          /\ found' = Tail(found)
          /\ pc' \in {"handle", "auth"}
          /\ ev'.outcome = "ignored"
          /\ UNCHANGED <<transfer, saved_bytes, analysed, upload_bytes, disk>>]_vars

\* C8 happens: a file that is a first-turn save but has another name was
\* ignored while a first-turn game was waiting for one.
C8_Witness ==
    /\ ev.op = "handle_save" /\ ev.outcome = "ignored"
    /\ ev.file = OtherFile /\ ev.bytes = "t0"
    /\ IsSome(user_id)
    /\ \E i \in 1..Len(my_games) : my_games[i].current_turn.is_first_turn


(***************************************************************************)
(* The claim about a save that does not parse.                             *)
(***************************************************************************)

\* A step read a file whose bytes do not parse: store_downloaded_save, or
\* handle_save for a name that matches.
ParseFailed ==
    /\ \/ ev.op = "store_downloaded_save"
       \/ ev.op = "handle_save" /\ TurnName(ev.file)
    /\ ev.bytes # None
    /\ ~Parsed[ev.bytes].ok

\* C3: when the save a step read does not parse, the transfer state of every
\* game, the one the save is for included, is what it was before the step.
C3_ParseFailureKeepsState == ParseFailed => transfer = ev.before


(***************************************************************************)
(* The claims about uploads.                                               *)
(***************************************************************************)

\* The tick came to a game of the user that was UploadQueued.
SawUploadQueued(game) == ev.before[game.game_id].st = "UploadQueued"

\* C11: a game of the user in UploadQueued moves to Uploading on a later tick.
\* A tick that has seen the game UploadQueued has moved it to Uploading, or has
\* left the Manager running so that a later tick can.
C11_UploadQueuedProceeds ==
    TransfersRan =>
        \A i \in 1..Len(my_games) :
            SawUploadQueued(my_games[i]) =>
                \/ transfer[my_games[i].game_id].st = "Uploading"
                \/ pc # "panicked"


\* The tasks upload_save_client spawned.
Uploads == {t \in 1..Len(tasks) : "turn_id" \in DOMAIN tasks[t]}

\* The upload of the game has reported success.
UploadSucceeded(g) ==
    \E t \in Uploads : tasks[t].game_id = g /\ tasks[t].sent = <<"Started", "Done">>

C13_TickNeverWaits ==
    /\ pc = "auth" => ENABLED ProcessAuth
    /\ pc = "fetch" => ENABLED ProcessFetch
    /\ pc = "transfers" => ENABLED ProcessTransfers
    /\ pc = "saves" => ENABLED ProcessNewSaves
    /\ pc = "handle" => ENABLED HandleSave

\* C13 happens: a tick ran to its end while the auth task had not answered,
\* nothing was fetched, a download had sent nothing and no file name waited.
C13_Witness ==
    /\ ev.op = "process_new_saves" /\ pc = "auth"
    /\ IsSome(auth_rx) /\ Unwrap(auth_rx).state = "waiting"
    /\ fetch_games_rx = Some(<<>>)
    /\ watch_files_rx = Some(<<>>)
    /\ \E g \in GameIds :
          /\ transfer[g].st = "Downloading"
          /\ tasks[transfer[g].rx].chan = <<>>


\* C14: the watcher task is never held up by its consumer: whenever notify has
\* reported a created file, the task can put the name into the queue, however
\* many names wait there for process_new_saves.
C14_WatchNeverStalled == (Alive /\ raw_events # <<>>) => ENABLED WatchForward


(***************************************************************************)
(* The claims about the transfer map.                                      *)
(***************************************************************************)

\* The saved bytes of the game's current turn are in the database.
HasSavedBytes(game) == saved_bytes[<<game.game_id, game.current_turn.turn_id>>] # None

\* C15: after start(), before any tick, a game of the persisted list whose saved
\* bytes for its current turn are in the database is Downloaded, and a game
\* without them has no entry; and no tick starts a download for a game of the
\* user whose current turn has its saved bytes.
C15_SavedMeansDownloaded ==
    /\ ev.op = "start" =>
          \A g \in GameIds :
              transfer[g] =
                  IF \E i \in 1..Len(games_list) :
                        games_list[i].game_id = g /\ HasSavedBytes(games_list[i])
                  THEN St("Downloaded") ELSE St("absent")
    /\ TransfersRan =>
          \A i \in 1..Len(my_games) :
              HasSavedBytes(my_games[i]) => StartedFor(my_games[i].game_id) = {}

\* C15 happens: a tick ran over a game, past its first turn, that start() had
\* marked Downloaded for its saved bytes, and no download was ever started.
C15_Witness ==
    /\ TransfersRan /\ ev.outcome = "ok"
    /\ \E i \in 1..Len(my_games) :
          /\ HasSavedBytes(my_games[i])
          /\ ~my_games[i].current_turn.is_first_turn
          /\ transfer[my_games[i].game_id] = St("Downloaded")
    /\ tasks = <<>>


(***************************************************************************)
(* The claim about the analysed saves and local files.                     *)
(***************************************************************************)

\* The game of the user with this id.
MyGame(game_id) == CHOOSE game \in {my_games[i] : i \in 1..Len(my_games)} :
                       game.game_id = game_id

\* C16: after handle_save has parsed a new local file and matched it to one
\* game, the analysed saves hold the parsed file under that game's
\* (GameId, TurnId).
C16_LocalSaveAnalysed ==
    (Matched /\ ev.outcome = "queued") =>
        analysed_get(analysed, ev.matched[1],
                     MyGame(ev.matched[1]).current_turn.turn_id)
            = AnalysisOf(ev.bytes)


\* C17: a game without an entry is taken as Idle by the process_transfers that
\* comes to it: that tick leaves it where Idle leads, Downloaded on its first
\* turn and Downloading with a new download otherwise (a tick that panics
\* before it comes to the game leaves it without an entry).  An entry, once
\* there, is never removed.
C17_EntryIdleAndKept ==
    [][/\ \A g \in GameIds : transfer[g].st # "absent" => transfer'[g].st # "absent"
       /\ (pc = "transfers" /\ pc' # "transfers" /\ IsSome(user_id)) =>
             \A i \in 1..Len(my_games) :
                 transfer[my_games[i].game_id].st = "absent" =>
                     \/ pc' = "panicked" /\ transfer'[my_games[i].game_id].st = "absent"
                     \/ /\ my_games[i].current_turn.is_first_turn
                        /\ transfer'[my_games[i].game_id] = St("Downloaded")
                     \/ /\ ~my_games[i].current_turn.is_first_turn
                        /\ transfer'[my_games[i].game_id].st = "Downloading"
                        /\ transfer'[my_games[i].game_id].rx > Len(tasks)]_vars

\* C17 happens: a tick came to two games without an entry, one past its first
\* turn, and both have their entry afterwards.
C17_Witness ==
    /\ TransfersRan /\ ev.outcome = "ok"
    /\ Len(my_games) = 2
    /\ \A i \in 1..Len(my_games) :
          /\ ev.before[my_games[i].game_id].st = "absent"
          /\ transfer[my_games[i].game_id].st # "absent"
    /\ \E g \in GameIds : transfer[g].st = "Downloading"


(***************************************************************************)
(* The claims about find_game_for_save.  After handle_save, ev.bytes is    *)
(* the new save and ev.matched the games find_game_for_save returned.      *)
(***************************************************************************)

\* header.turn of the new save.
NewTurn == Parsed[ev.bytes].val.header.turn

\* The ids of the user's games on their first turn.
FirstTurnIds ==
    {my_games[i].game_id : i \in {j \in 1..Len(my_games) : my_games[j].current_turn.is_first_turn}}

\* The analysed save of the game's current turn.
Cached(game) == analysed_get(analysed, game.game_id, game.current_turn.turn_id)

\* C18: for a new save with header turn 0, find_game_for_save returns the games
\* of the user that are on their first turn, each of them once and no other,
\* whatever the analysed saves hold.
C18_FirstTurnAll ==
    (Matched /\ NewTurn = 0) =>
        /\ {ev.matched[k] : k \in 1..Len(ev.matched)} = FirstTurnIds
        /\ Len(ev.matched) = Cardinality(FirstTurnIds)

\* C18 happens: two first-turn games were returned for a first-turn save, one
\* of them with an analysed save that is far from the new one.
C18_Witness ==
    /\ Matched /\ NewTurn = 0
    /\ Len(ev.matched) = 2
    /\ \E i \in 1..Len(my_games) :
          /\ IsSome(Cached(my_games[i]))
          /\ Unwrap(Cached(my_games[i])).header.turn = 2


\* The game has an analysed save for its current turn, and the new save is of
\* that save's turn or the one after.
Eligible(game) ==
    /\ IsSome(Cached(game))
    /\ \/ NewTurn = Unwrap(Cached(game)).header.turn
       \/ NewTurn = Unwrap(Cached(game)).header.turn + 1

\* The user's games with one of the returned ids.
Returned == {my_games[i] : i \in {j \in 1..Len(my_games) :
                                   \E k \in 1..Len(ev.matched) :
                                       ev.matched[k] = my_games[j].game_id}}

\* C19: for a new save with a header turn other than 0, every game that
\* find_game_for_save returns is a game of the user with an analysed save for
\* its current turn whose header turn is the new save's turn or one less.
C19_ReturnedAreContinuous ==
    (Matched /\ NewTurn # 0) =>
        /\ \A k \in 1..Len(ev.matched) :
              \E i \in 1..Len(my_games) : my_games[i].game_id = ev.matched[k]
        /\ \A game \in Returned : Eligible(game)

\* C19 happens: one game was returned while another game of the user had an
\* analysed save of a turn too far from the new save's.
C19_Witness ==
    /\ Matched /\ NewTurn # 0
    /\ Len(ev.matched) = 1
    /\ \E i \in 1..Len(my_games) :
          /\ IsSome(Cached(my_games[i]))
          /\ ~Eligible(my_games[i])

\* The difference score of the new save against the game's analysed save.
Score(game) == difference_score(Parsed[ev.bytes].val, Unwrap(Cached(game)))

\* C20: for a new save with a header turn other than 0, no eligible game of
\* the user has a smaller difference score than a game that find_game_for_save
\* returns.
C20_SmallestDifference ==
    (Matched /\ NewTurn # 0) =>
        \A game \in Returned :
            \A i \in 1..Len(my_games) :
                Eligible(my_games[i]) => Score(game) <= Score(my_games[i])


\* The eligible games of the user whose difference score no eligible game
\* undercuts.
Tied ==
    {i \in 1..Len(my_games) :
        /\ Eligible(my_games[i])
        /\ \A j \in 1..Len(my_games) :
              Eligible(my_games[j]) => Score(my_games[i]) <= Score(my_games[j])}

\* C21: for a new save with a header turn other than 0, when several eligible
\* games tie for the minimal difference score, find_game_for_save returns the
\* tied game that comes first in the games list, and only that one.
C21_TieGoesToFirst ==
    (Matched /\ NewTurn # 0 /\ Cardinality(Tied) >= 2) =>
        \E i \in Tied :
            /\ \A j \in Tied : i <= j
            /\ ev.matched = <<my_games[i].game_id>>


(***************************************************************************)
(* The claims about the reader.  reader.a and reader.b pick the buffers,   *)
(* reader.save_a and reader.save_b hold what parse() gave for them.        *)
(***************************************************************************)

\* The buffer a, that it parsed, and the save parse() returned for it.
BytesA == Inputs[reader.a]
ParsedA == IsSome(reader.save_a) /\ Unwrap(reader.save_a).ok
SaveA == Unwrap(reader.save_a).val

\* The 0-based position where the k-th chunk of the claim starts: the start of
\* the buffer, or the position after the boundary that ended the chunk before.
PreviousEnd(k) == IF k = 1 THEN 0 ELSE SaveA.chunks[k - 1].offset

\* The bytes hold a boundary somewhere.
HasBoundary(data) ==
    \E p \in 1..(Len(data) - 3) : SubSeq(data, p, p + 3) = chunk_boundary

\* C22: in a save that parsed, every chunk's data is the region of the buffer
\* from the previous end position up to the boundary that ends the chunk, the
\* boundary follows it, and the data holds no boundary.
C22_ChunksBetweenBoundaries ==
    ParsedA =>
        \A k \in 1..Len(SaveA.chunks) :
            /\ SubSeq(BytesA, SaveA.chunks[k].offset - 3, SaveA.chunks[k].offset) = chunk_boundary
            /\ SaveA.chunks[k].data
                   = SubSeq(BytesA, PreviousEnd(k) + 1, SaveA.chunks[k].offset - 4)
            /\ ~HasBoundary(SaveA.chunks[k].data)


\* The boundaries the buffer holds.
Boundaries(b) ==
    Cardinality({p \in 1..(Len(b) - 3) : SubSeq(b, p, p + 3) = chunk_boundary})

\* C23: a save that parsed has exactly 31 chunks, and parse() fails on a buffer
\* that holds fewer than 31 boundaries.
C23_ThirtyOneChunks ==
    /\ ParsedA => Len(SaveA.chunks) = 31
    /\ (IsSome(reader.save_a) /\ Boundaries(BytesA) < 31) => ~Unwrap(reader.save_a).ok

\* C23 happens: a buffer with the magic, a whole header and 30 boundaries
\* failed, and a buffer with 32 boundaries gave a save of 31 chunks.
C23_Witness ==
    /\ IsSome(reader.save_a) /\ ~Unwrap(reader.save_a).ok
    /\ Boundaries(BytesA) = 30
    /\ Unwrap(reader.save_a).err = "UnexpectedEof"
    /\ IsSome(reader.save_b) /\ Unwrap(reader.save_b).ok
    /\ Boundaries(Inputs[reader.b]) = 32
    /\ Len(Unwrap(reader.save_b).val.chunks) = 31


\* The names of the save's players, in order.
PlayerNames == [i \in 1..Len(SaveA.players) |-> SaveA.players[i].name]

\* C24: in a save that parsed, the players' names are, in order, the
\* length-prefixed strings at the start of the data of chunk index 1, up to
\* the first empty string.
C24_NamesInChunkOne ==
    ParsedA =>
        /\ strings(SaveA.chunks[2].data, 0).ok
        /\ strings(SaveA.chunks[2].data, 0).val = PlayerNames


\* The 0-based positions where the k-th boundary of the buffer starts and ends.
BoundaryStart(b, k) ==
    LET at == {p \in 1..(Len(b) - 3) : SubSeq(b, p, p + 3) = chunk_boundary}
    IN  (CHOOSE p \in at : Cardinality({q \in at : q < p}) = k - 1) - 1
BoundaryEnd(b, k) == BoundaryStart(b, k) + 4

\* The names the buffer holds where parse() reads them, and the type codes
\* it holds from where parse() reads them up to the next boundary.
NamesHeld(b) == strings(b, BoundaryEnd(b, 2))
TypeCodesHeld(b) == (BoundaryStart(b, 4) - BoundaryEnd(b, 3)) \div 4

\* C25: a save that parsed has as many players as the buffer holds type
\* codes, and parse() fails on a buffer that holds a different number of type
\* codes than names.
C25_AsManyTypesAsNames ==
    /\ ParsedA => Len(SaveA.players) = TypeCodesHeld(BytesA)
    /\ (/\ IsSome(reader.save_a)
        /\ Boundaries(BytesA) >= 4
        /\ NamesHeld(BytesA).ok
        /\ Len(NamesHeld(BytesA).val) # TypeCodesHeld(BytesA))
           => ~Unwrap(reader.save_a).ok


\* The i-th type code of the buffer: four bytes, the lowest first, from where
\* parse() reads the codes.
TypeCode(b, i) ==
    LET p == BoundaryEnd(b, 3) + 4 * (i - 1)
    IN  b[p + 1] + 256 * b[p + 2] + 65536 * b[p + 3] + 16777216 * b[p + 4]

TypeNames == <<"AI", "Dead", "Human", "None">>

\* parse() gets as far as the type codes of the buffer.
ReachesTypes(b) ==
    /\ Len(b) >= 4 /\ SubSeq(b, 1, 4) = Magic
    /\ header(b, 4).ok
    /\ Boundaries(b) >= 31
    /\ NamesHeld(b).ok

\* C26: the i-th player's type is the one the i-th little-endian u32 code
\* names (1 AI, 2 Dead, 3 Human, 4 None); with a code outside 1..4 among the
\* players' codes parse() returns no save but the unknown-player-type error
\* with the first such code as its value.
C26_TypeCodes ==
    /\ ParsedA =>
          \A i \in 1..Len(SaveA.players) :
              /\ TypeCode(BytesA, i) \in 1..4
              /\ SaveA.players[i].player_type = TypeNames[TypeCode(BytesA, i)]
    /\ (IsSome(reader.save_a) /\ ReachesTypes(BytesA)) =>
          \A i \in 1..Len(NamesHeld(BytesA).val) :
              (/\ TypeCode(BytesA, i) \notin 1..4
               /\ \A j \in 1..(i - 1) : TypeCode(BytesA, j) \in 1..4)
                 => /\ ~Unwrap(reader.save_a).ok
                    /\ Unwrap(reader.save_a).err = "UnknownPlayerType"
                    /\ Unwrap(reader.save_a).val = TypeCode(BytesA, i)

\* C26 happens: the code 03 01 00 00 failed the parse with the value 259, and
\* another buffer gave four players, one of each type.
C26_Witness ==
    /\ IsSome(reader.save_a) /\ ReachesTypes(BytesA)
    /\ ~Unwrap(reader.save_a).ok
    /\ Unwrap(reader.save_a).err = "UnknownPlayerType"
    /\ Unwrap(reader.save_a).val = 259
    /\ IsSome(reader.save_b) /\ Unwrap(reader.save_b).ok
    /\ Len(Unwrap(reader.save_b).val.players) = 4
    /\ [i \in 1..4 |-> Unwrap(reader.save_b).val.players[i].player_type] = TypeNames


\* The save parse() returned for the buffer b.
SaveB == Unwrap(reader.save_b).val

\* The positions (chunk i, offset j in x's chunk i) where y's chunk i has no
\* byte or another byte.
Differing(x, y) ==
    UNION { { <<i, j>> : j \in { k \in 1..Len(x.chunks[i].data) :
                                   \/ k > Len(y.chunks[i].data)
                                   \/ x.chunks[i].data[k] # y.chunks[i].data[k] } } :
            i \in 1..Len(x.chunks) }

\* C27: a.difference_score(&b) is the number of positions in a's chunks where
\* b's chunk of the same index has no byte or a different byte.
C27_CountsDifferingPositions ==
    IsSome(reader.score) => Unwrap(reader.score) = Cardinality(Differing(SaveA, SaveB))

\* C27 happens: the score counted a position past the end of b's chunk, b has
\* a chunk longer than a's, and the score the other way round is another.
C27_Witness ==
    /\ IsSome(reader.score) /\ Unwrap(reader.score) > 0
    /\ \E p \in Differing(SaveA, SaveB) : p[2] > Len(SaveB.chunks[p[1]].data)
    /\ \E i \in 1..Len(SaveA.chunks) : Len(SaveB.chunks[i].data) > Len(SaveA.chunks[i].data)
    /\ Cardinality(Differing(SaveB, SaveA)) # Unwrap(reader.score)


\* C28: the difference score of a save against a save equal to it is 0.
C28_SameIsZero ==
    (IsSome(reader.score) /\ SaveA = SaveB) => Unwrap(reader.score) = 0

\* C28 happens: a save with two players was scored against its equal.
C28_Witness ==
    /\ IsSome(reader.score) /\ SaveA = SaveB
    /\ Len(SaveA.players) = 2
    /\ Unwrap(reader.score) = 0


\* The little-endian u32 the buffer holds at the 0-based position p.
U32At(b, p) == b[p + 1] + 256 * b[p + 2] + 65536 * b[p + 3] + 16777216 * b[p + 4]

\* The position of the turn in a buffer: after the magic, the save u32, the
\* game string and the build string.
TurnAt(b) ==
    LET game == 8
        build == game + 4 + U32At(b, game)
    IN  build + 4 + U32At(b, build)

\* C29: parse() of a buffer whose first four bytes are not "CIV5" fails with
\* the bad-header error, whatever follows them; in a save that parsed the
\* header's turn is the little-endian u32 after the magic, the save u32, the
\* game string and the build string.
C29_MagicThenTurn ==
    /\ (/\ IsSome(reader.save_a)
        /\ Len(BytesA) >= 4
        /\ SubSeq(BytesA, 1, 4) # <<67, 73, 86, 53>>)
           => /\ ~Unwrap(reader.save_a).ok
              /\ Unwrap(reader.save_a).err = "BadHeader"
    /\ ParsedA => SaveA.header.turn = U32At(BytesA, TurnAt(BytesA))

\* C29 happens: six bytes without the magic, too few for a header, failed
\* with the bad-header error, and a buffer with a game and a build string
\* gave the turn that stands behind them.
C29_Witness ==
    /\ IsSome(reader.save_a) /\ Len(BytesA) = 6
    /\ Unwrap(reader.save_a).err = "BadHeader"
    /\ IsSome(reader.save_b) /\ Unwrap(reader.save_b).ok
    /\ SaveB.header.game # <<>> /\ SaveB.header.build # <<>>
    /\ SaveB.header.turn = 5
    /\ TurnAt(Inputs[reader.b]) = 19


(***************************************************************************)
(* The claim about the auth response.                                      *)
(***************************************************************************)

\* C30: when process() handles an auth response, a user id other than the
\* stored one is stored and the games list is cleared; the same user id, or a
\* user id when none was stored, is stored and the games list stays; a failed
\* authentication leaves the stored user id and the games list as they were.
C30_ClearOnUserChange ==
    [][(pc = "auth" /\ pc' = "fetch" /\ IsSome(auth_rx) /\ Unwrap(auth_rx).state = "ready") =>
          LET response == Unwrap(auth_rx).val
          IN  /\ (IsSome(response) /\ IsSome(user_id) /\ response # user_id)
                    => user_id' = response /\ games' = NoneOpt
              /\ (IsSome(response) /\ (~IsSome(user_id) \/ response = user_id))
                    => user_id' = response /\ games' = games
              /\ ~IsSome(response) => user_id' = user_id /\ games' = games]_vars

\* C30 happens: the response carried another user id than the stored one
\* while a games list was stored, and the games list is gone.
C30_Witness ==
    /\ ev.op = "auth"
    /\ ev.before = <<Some(Me), Some(<< Game(1, Name1, 10, Me, FALSE) >>)>>
    /\ user_id = Some(Other)
    /\ games = NoneOpt


(***************************************************************************)
(* The claims about a game's transfer state over the life of the process.  *)
(***************************************************************************)

\* The download tasks started for the game.
DownloadsOf(tk, g) == {t \in 1..Len(tk) : tk[t].game_id = g}

\* C31: no step takes a game's transfer state from a state other than Idle
\* (and other than having no entry) to Idle, and no more than one download
\* task is ever started for a game.
C31_NeverBackToIdle ==
    [][\A g \in GameIds :
          /\ transfer[g].st \notin {"absent", "Idle"} => transfer'[g].st # "Idle"
          /\ Cardinality(DownloadsOf(tasks', g)) <= 1]_vars

\* C31 happens: game 1 had left Idle for Downloading, the fetch brought a new
\* turn id for it, and process_transfers ran over it again: the state is the
\* one it had and the one download is the only one.
C31_Witness ==
    /\ ev.op = "process_transfers"
    /\ ev.before[1].st = "Downloading" /\ transfer[1] = ev.before[1]
    /\ \E i \in 1..Len(my_games) :
          /\ my_games[i].game_id = 1
          /\ my_games[i].current_turn.turn_id = 11
    /\ Cardinality(DownloadsOf(tasks, 1)) = 1
    /\ tasks = ev.tasks_before


\* C32: handle_save puts UploadQueued only in the place of Downloaded: the game
\* it queued was Downloaded before, not Idle, Downloading, UploadQueued,
\* Uploading or UploadComplete.
C32_QueuedFromDownloaded ==
    (ev.op = "handle_save" /\ ev.outcome = "queued") =>
        ev.before[ev.matched[1]].st = "Downloaded"


(***************************************************************************)
(* The claims about the names the watcher queued.                          *)
(***************************************************************************)

\* C33: process_new_saves takes the queued names in their order, each round of
\* its loop passes the first name left to handle_save, and unless the process
\* panics the names after it stay to be handled, whatever handle_save returned.
C33_EveryNameHandled ==
    [][/\ (pc = "saves" /\ pc' # "saves") => found' = Unwrap(watch_files_rx)
       /\ (pc = "handle" /\ found' # found /\ pc' # "panicked") =>
             /\ ev'.file = Head(found)
             /\ found' = Tail(found)
             /\ found' # <<>> => pc' = "handle"]_vars


\* The names the engine's downloads give their files.
DownloadNames == UNION {{filename(l[i]) : i \in 1..Len(l)} : l \in RemoteLists}

\* C34: a name handle_save was given that is the name of a download's file is
\* not taken for a turn file: handle_save ignores it and queues no upload.
C34_DownloadNameIgnored ==
    (ev.op = "handle_save" /\ ev.file \in DownloadNames) =>
        /\ ~turn_from_filename(ev.file).some
        /\ ev.outcome = "ignored"
        /\ transfer = ev.before


(***************************************************************************)
(* The claim about the auth response and the startup fetch.  Only the      *)
(* steps ProcessAuth and ProcessFetch write the games list.                *)
(***************************************************************************)

\* The startup fetch sent its games list and process() has taken it.
FetchProcessed == fetch_task = "done" /\ fetch_games_rx = Some(<<>>)

\* C35: the step of process() that takes the fetch's games list stores it, and
\* the step that handles a successful auth response after that list was taken
\* leaves the stored list as it is; so once both are processed, in either
\* order, the stored games list is the fetched one.
C35_FetchedListKept ==
    [][/\ (/\ pc = "fetch" /\ pc' # "fetch"
           /\ IsSome(fetch_games_rx) /\ Unwrap(fetch_games_rx) # <<>>
           /\ \A i \in 1..Len(Unwrap(fetch_games_rx)) : Unwrap(fetch_games_rx)[i].ok)
             => games' = Some(Unwrap(fetch_games_rx)[Len(Unwrap(fetch_games_rx))].games)
       /\ (/\ pc = "auth" /\ pc' = "fetch"
           /\ IsSome(auth_rx) /\ Unwrap(auth_rx).state = "ready"
           /\ IsSome(Unwrap(auth_rx).val)
           /\ FetchProcessed)
             => games' = games]_vars


(***************************************************************************)
(* The claim about the number of games find_game_for_save returns.         *)
(***************************************************************************)

\* C36: for a new save with a header turn other than 0 find_game_for_save
\* returns at most one game, so when it returned several the header turn was 0.
C36_AtMostOneMatch ==
    /\ (Matched /\ NewTurn # 0) => Len(ev.matched) <= 1
    /\ (Matched /\ Len(ev.matched) > 1) => NewTurn = 0

\* C36 happens: two eligible games tied for the minimal difference score and
\* one game was returned and queued.
C36_Witness ==
    /\ Matched /\ NewTurn # 0
    /\ Cardinality(Tied) >= 2
    /\ Len(ev.matched) = 1
    /\ ev.outcome = "queued"


(***************************************************************************)
(* The claims about the chunk scan.                                        *)
(***************************************************************************)

\* C37: in a save that parsed, every chunk's data are the `size` bytes of the
\* buffer that start at the chunk's offset.
C37_OffsetIsDataStart ==
    ParsedA =>
        \A k \in 1..Len(SaveA.chunks) :
            /\ SaveA.chunks[k].offset + SaveA.chunks[k].size <= Len(BytesA)
            /\ SaveA.chunks[k].data
                  = SubSeq(BytesA, SaveA.chunks[k].offset + 1,
                           SaveA.chunks[k].offset + SaveA.chunks[k].size)


\* The 0-based positions behind `from` where the buffer holds a boundary.
BoundariesBehind(b, from) ==
    {p \in (from + 1)..(Len(b) - 4) : SubSeq(b, p + 1, p + 4) = chunk_boundary}

\* The smallest of a set of positions.
Smallest(S) == CHOOSE p \in S : \A q \in S : p <= q

\* The 0-based position where the search for the k-th chunk's end starts from:
\* the start of the buffer, or the start of the boundary found before.
ScanStart(k) == IF k = 1 THEN 0 ELSE SaveA.chunks[k - 1].offset - 4

\* C38: the chunk scan ends on every buffer, with 31 chunks when the buffer holds
\* 31 boundaries behind its first byte and with the error of a read at the end
\* of the buffer when it holds fewer; every search moves byte by byte to the
\* nearest boundary behind its start, so no boundary is passed over and none is
\* found twice.
C38_ScanTerminates ==
    IsSome(reader.save_a) =>
        /\ load_chunks(BytesA).ok <=> Cardinality(BoundariesBehind(BytesA, 0)) >= ChunkCount
        /\ load_chunks(BytesA).ok => Len(load_chunks(BytesA).val) = ChunkCount
        /\ ~load_chunks(BytesA).ok => load_chunks(BytesA) = Err("UnexpectedEof")
        /\ ParsedA =>
              /\ SaveA.chunks = load_chunks(BytesA).val
              /\ \A k \in 1..Len(SaveA.chunks) :
                    /\ BoundariesBehind(BytesA, ScanStart(k)) # {}
                    /\ SaveA.chunks[k].offset
                          = Smallest(BoundariesBehind(BytesA, ScanStart(k))) + 4
                    /\ k > 1 => SaveA.chunks[k].offset > SaveA.chunks[k - 1].offset

\* Buffer a was scanned into 31 chunks, and the scan of buffer b found some
\* boundaries and then read into the end of the buffer.
C38_Witness ==
    /\ ParsedA /\ Len(SaveA.chunks) = ChunkCount
    /\ IsSome(reader.save_b) /\ ~Unwrap(reader.save_b).ok
    /\ Unwrap(reader.save_b).err = "UnexpectedEof"
    /\ BoundariesBehind(Inputs[reader.b], 0) # {}
    /\ Cardinality(BoundariesBehind(Inputs[reader.b], 0)) < ChunkCount

=============================================================================
